---------------------------- MODULE Spec2Model ----------------------------
(***************************************************************************)
(* Model of the hybrid query processor of src/query_processor.py           *)
(* (EnhancedQueryProcessor): literal escaping, intent classification,      *)
(* concept extraction, structured-query synthesis and the process_query    *)
(* orchestration with its three retrieval sources.                         *)
(*                                                                         *)
(* Python strings are TLA+ strings; a character is a string of length 1.   *)
(* Scores of the classifier are kept doubled (a pattern match counts 2, a  *)
(* keyword hit counts 1) so that the code's +1 / +0.5 stay integers.       *)
(***************************************************************************)
EXTENDS Integers, Sequences, FiniteSets, TLC

VARIABLES
    \* escape applied to a string: position, input, escape(x), escape(escape(x))
    escPc, escText, escOnce, escTwice,
    \* classify and extract applied to a query: position, query, results
    qPc, qText, qClass, qConcepts,
    \* the synthesizer applied to an intent and a concept list
    synPc, synIntent, synConcepts, synQueries,
    \* one process_query call: the step it is at, its arguments, the two
    \* handles of the processor (TRUE: set, FALSE: None), the result
    \* dictionary, the local list of step 4, and the log of collaborator calls
    pc, args, vector_store, sparql_chain, result, enhanced_results, calls,
    \* one chat call: the step it is at, its arguments, the LLM handle of the
    \* chatbot (TRUE: set, FALSE: None), initialization_status['query_processor'],
    \* the log of LLM invocations and the dictionary chat returns
    chatPc, chatArgs, llm, query_processor_ready, llmCalls, chatResult,
    \* the knowledge base: the entities in the vector index, the entities of
    \* the loaded graph, and the log of the operations run on it
    kbIndex, kbGraph, kbLog,
    \* the tables of the processor, built by __init__ and shared by every call
    query_patterns, intent_keywords,
    \* two calls on one processor: whether both are in flight or the first is
    \* made again alone, the call the variables of process_query belong to,
    \* the variables of the other call, the first call as it ended among the
    \* steps of the other, and whether the other was under way when it ended
    phase, running, suspended, interleaved, mixed

escVars == <<escPc, escText, escOnce, escTwice>>
qVars == <<qPc, qText, qClass, qConcepts>>
synVars == <<synPc, synIntent, synConcepts, synQueries>>
pqVars == <<pc, args, vector_store, sparql_chain, result, enhanced_results, calls>>
chatVars == <<chatPc, chatArgs, llm, query_processor_ready, llmCalls, chatResult>>
kbVars == <<kbIndex, kbGraph, kbLog>>
tableVars == <<query_patterns, intent_keywords>>
reqVars == <<phase, running, suspended, interleaved, mixed>>
vars == <<escVars, qVars, synVars, pqVars, chatVars, kbVars, tableVars, reqVars>>

-----------------------------------------------------------------------------
(* Bounds of the model *)

\* longest string handed to _escape_sparql_string in the escape specification
MaxEscLen == 3
\* most words of a query handed to classify and extract
MaxQueryWords == 3
\* longest concept list handed to the synthesizer
MaxConcepts == 4
\* longest query, in words, given to the pipeline without collaborators
MaxExampleWords == 3
\* most operations run on the knowledge base in one behaviour
MaxKbOps == 2

-----------------------------------------------------------------------------
(* Python str primitives *)

Ch(s, i) == SubSeq(s, i, i)

LowerLetters == "abcdefghijklmnopqrstuvwxyz"
UpperLetters == "ABCDEFGHIJKLMNOPQRSTUVWXYZ"
Digits == "0123456789"

CharsOf(s) == {Ch(s, i) : i \in 1..Len(s)}

LetterSet == CharsOf(LowerLetters) \cup CharsOf(UpperLetters)
UpperSet == CharsOf(UpperLetters)
DigitSet == CharsOf(Digits)

\* [a-zA-Z]
IsLetter(c) == c \in LetterSet

\* \w restricted to ASCII
IsWordCh(c) == c \in LetterSet \/ c \in DigitSet \/ c = "_"

\* the ASCII whitespace of \s and str.strip(): space, 0x09-0x0d and 0x1c-0x1f
WhitespaceChars == " \t\n\r\f"

\* \s restricted to ASCII
IsSpaceCh(c) == \E i \in 1..Len(WhitespaceChars) : c = SubSeq(WhitespaceChars, i, i)

\* str.replace(old, new) for a one-character old
RECURSIVE Replace(_, _, _)
Replace(s, old, new) ==
    IF s = "" THEN ""
    ELSE (IF Head(s) = old THEN new ELSE Head(s)) \o Replace(Tail(s), old, new)

\* re.sub(r'[^\w\s\-_.]', '', text)
RECURSIVE StripUnsafe(_)
StripUnsafe(s) ==
    IF s = "" THEN ""
    ELSE (IF IsWordCh(Head(s)) \/ IsSpaceCh(Head(s)) \/ Head(s) \in {"-", "_", "."}
          THEN Head(s) ELSE "") \o StripUnsafe(Tail(s))

-----------------------------------------------------------------------------
(* _escape_sparql_string *)

\* a plausible slip: the six replacements without the final re.sub
EscapeWithoutStrip(text) ==
    IF text = "" THEN ""
    ELSE Replace(Replace(Replace(Replace(Replace(Replace(text,
             "\\", "\\\\"), "\"", "\\\""), "'", "\\'"), "\n", "\\n"), "\r", "\\r"), "\t", "\\t")

_escape_sparql_string(text) ==
    IF text = "" THEN ""
    ELSE StripUnsafe(
           Replace(Replace(Replace(Replace(Replace(Replace(text,
             "\\", "\\\\"), "\"", "\\\""), "'", "\\'"), "\n", "\\n"), "\r", "\\r"), "\t", "\\t"))

-----------------------------------------------------------------------------
(* Regular expressions of query_patterns: a pattern is a sequence of       *)
(* elements, each a literal, a choice of literals, or the group (.+)       *)

L(text) == [any |-> FALSE, alts |-> {text}]
\* (x|y)
Alt(choices) == [any |-> FALSE, alts |-> choices]
\* (x|y)?
Opt(choices) == [any |-> FALSE, alts |-> choices \cup {""}]
\* (.+): one or more characters other than a newline
ANY == [any |-> TRUE, alts |-> {}]

RECURSIVE MatchAt(_, _, _, _)
MatchAt(pat, k, s, i) ==
    IF k > Len(pat) THEN TRUE
    ELSE IF pat[k].any
         THEN \E j \in (i + 1)..(Len(s) + 1) :
                 /\ "\n" \notin CharsOf(SubSeq(s, i, j - 1))
                 /\ MatchAt(pat, k + 1, s, j)
         ELSE \E a \in pat[k].alts :
                 /\ i + Len(a) - 1 <= Len(s)
                 /\ SubSeq(s, i, i + Len(a) - 1) = a
                 /\ MatchAt(pat, k + 1, s, i + Len(a))

\* re.search(pattern, s) finds a match
re_search(pat, s) == \E i \in 1..(Len(s) + 1) : MatchAt(pat, 1, s, i)

\* keyword in s
Contains(s, sub) ==
    \E i \in 1..(Len(s) - Len(sub) + 1) : SubSeq(s, i, i + Len(sub) - 1) = sub

LowerCh(c) ==
    IF c \in UpperSet
    THEN Ch(LowerLetters, CHOOSE i \in 1..Len(UpperLetters) : Ch(UpperLetters, i) = c)
    ELSE c

\* str.lower()
RECURSIVE Lower(_)
Lower(s) == IF s = "" THEN "" ELSE LowerCh(Head(s)) \o Lower(Tail(s))

RECURSIVE LStrip(_)
LStrip(s) == IF s # "" /\ IsSpaceCh(Head(s)) THEN LStrip(Tail(s)) ELSE s

RECURSIVE RStrip(_)
RStrip(s) ==
    IF s # "" /\ IsSpaceCh(Ch(s, Len(s))) THEN RStrip(SubSeq(s, 1, Len(s) - 1)) ELSE s

\* str.strip()
Strip(s) == RStrip(LStrip(s))

-----------------------------------------------------------------------------
(* EnhancedQueryProcessor.__init__: the pattern and keyword tables *)

\* the intents in the insertion order of the query_patterns dictionary
Intents == <<"definition", "relationship", "property", "listing",
             "comparison", "hierarchical", "existence", "count">>

IntentSet == {Intents[i] : i \in 1..Len(Intents)}

\* lines 32-98: the dictionary __init__ assigns to self.query_patterns
QueryPatterns == [intent \in IntentSet |->
    CASE intent = "definition" -> <<
            <<L("what is "), Opt({"a ", "an "}), ANY>>,
            <<L("define "), ANY>>,
            <<L("explain "), ANY>>,
            <<L("describe "), ANY>>,
            <<L("tell me about "), ANY>>,
            <<L("give me information about "), ANY>>,
            <<ANY, L(" definition")>> >>
      [] intent = "relationship" -> <<
            <<L("how "), Opt({"is ", "are "}), ANY, L(" related to "), ANY>>,
            <<L("what "), ANY, L(" connect"), ANY, L(" to "), ANY>>,
            <<L("relationship between "), ANY, L(" and "), ANY>>,
            <<ANY, L(" related to "), ANY>>,
            <<L("how do "), ANY, L(" and "), ANY, L(" interact")>>,
            <<L("connection between "), ANY, L(" and "), ANY>> >>
      [] intent = "property" -> <<
            <<L("what "), ANY, L(" properties "), ANY, L(" "), Alt({"have", "has"})>>,
            <<L("what attributes "), ANY, L(" "), Alt({"have", "has"})>>,
            <<L("properties of "), ANY>>,
            <<L("attributes of "), ANY>>,
            <<L("characteristics of "), ANY>>,
            <<L("what can "), ANY, L(" do")>>,
            <<L("capabilities of "), ANY>> >>
      [] intent = "listing" -> <<
            <<L("list "), ANY>>,
            <<L("show me "), ANY>>,
            <<L("find all "), ANY>>,
            <<L("what are "), ANY>>,
            <<L("give me all "), ANY>>,
            <<L("enumerate "), ANY>>,
            <<L("all "), ANY, L(" in "), ANY>> >>
      [] intent = "comparison" -> <<
            <<L("difference between "), ANY, L(" and "), ANY>>,
            <<L("compare "), ANY, L(" "), Alt({"and", "with"}), L(" "), ANY>>,
            <<ANY, L(" vs "), ANY>>,
            <<ANY, L(" versus "), ANY>>,
            <<L("how "), ANY, L(" different from "), ANY>>,
            <<L("similarities between "), ANY, L(" and "), ANY>> >>
      [] intent = "hierarchical" -> <<
            <<L("what are the subclasses of "), ANY>>,
            <<L("what are the superclasses of "), ANY>>,
            <<ANY, L(" hierarchy")>>,
            <<L("children of "), ANY>>,
            <<L("parents of "), ANY>>,
            <<L("what inherits from "), ANY>>,
            <<L("what does "), ANY, L(" inherit from")>> >>
      [] intent = "existence" -> <<
            <<L("does "), ANY, L(" exist")>>,
            <<L("is there "), ANY>>,
            <<L("are there any "), ANY>>,
            <<L("do we have "), ANY>>,
            <<L("can you find "), ANY>> >>
      [] intent = "count" -> <<
            <<L("how many "), ANY>>,
            <<L("count "), ANY>>,
            <<L("number of "), ANY>>,
            <<L("total "), ANY>> >>]

\* lines 101-110: the dictionary __init__ assigns to self.intent_keywords
IntentKeywords == [intent \in IntentSet |->
    CASE intent = "definition" ->
            {"what", "define", "explain", "describe", "meaning", "definition"}
      [] intent = "relationship" ->
            {"related", "relationship", "connection", "interact", "connect"}
      [] intent = "property" ->
            {"property", "properties", "attribute", "attributes", "characteristic"}
      [] intent = "listing" ->
            {"list", "show", "all", "find", "enumerate", "give me"}
      [] intent = "comparison" ->
            {"difference", "compare", "vs", "versus", "different", "similar"}
      [] intent = "hierarchical" ->
            {"subclass", "superclass", "hierarchy", "inherit", "parent", "child"}
      [] intent = "existence" ->
            {"exist", "there", "any", "have", "find"}
      [] intent = "count" ->
            {"many", "count", "number", "total", "how much"}]

-----------------------------------------------------------------------------
(* _classify_query_enhanced *)

\* the value None
None == "None"

\* pattern matching: +1 per matching pattern (kept doubled: +2)
PatternScore2(intent, query_lower) ==
    2 * Cardinality({k \in 1..Len(query_patterns[intent]) :
                        re_search(query_patterns[intent][k], query_lower)})

\* keyword matching: +0.5 per keyword present (kept doubled: +1)
KeywordScore2(intent, query_lower) ==
    Cardinality({kw \in intent_keywords[intent] : Contains(query_lower, kw)})

\* intent_scores: a dictionary with one entry per intent
IntentScores2(query) ==
    LET query_lower == Strip(Lower(query))
        score(intent) ==
            PatternScore2(intent, query_lower) + KeywordScore2(intent, query_lower)
    IN  [definition |-> score("definition"), relationship |-> score("relationship"),
         property |-> score("property"), listing |-> score("listing"),
         comparison |-> score("comparison"), hierarchical |-> score("hierarchical"),
         existence |-> score("existence"), count |-> score("count")]

IndexOf(seq, x) == CHOOSE i \in 1..Len(seq) : seq[i] = x

\* a plausible slip: an ascending sort (reverse forgotten)
SortedAscending(items, score) ==
    LET rank(x) == 1 + Cardinality({y \in IntentSet :
                        \/ score[y] < score[x]
                        \/ score[y] = score[x] /\ IndexOf(items, y) < IndexOf(items, x)})
    IN  [r \in 1..Len(items) |-> CHOOSE x \in IntentSet : rank(x) = r]

\* a plausible slip: sorted(...) ascending and then reversed, which also
\* reverses the order of equal keys
SortedThenReversed(items, score) ==
    LET rank(x) == 1 + Cardinality({y \in IntentSet :
                        \/ score[y] > score[x]
                        \/ score[y] = score[x] /\ IndexOf(items, y) > IndexOf(items, x)})
    IN  [r \in 1..Len(items) |-> CHOOSE x \in IntentSet : rank(x) = r]

\* sorted(intent_scores.items(), key=score, reverse=True): Python's sort is
\* stable, and reverse=True keeps the original order of equal keys
SortedDescending(items, score) ==
    LET rank(x) == 1 + Cardinality({y \in IntentSet :
                        \/ score[y] > score[x]
                        \/ score[y] = score[x] /\ IndexOf(items, y) < IndexOf(items, x)})
    IN  [r \in 1..Len(items) |-> CHOOSE x \in IntentSet : rank(x) = r]

\* a plausible slip: the top entry is taken without the score > 0 test
ClassifyNoZeroTest(query) ==
    LET scores == IntentScores2(query)
        sorted_intents == SortedDescending(Intents, scores)
    IN  [primary_intent |-> sorted_intents[1],
         secondary_intent |-> sorted_intents[2],
         confidence2 |-> scores[sorted_intents[1]],
         all_scores2 |-> scores,
         sorted_intents |-> sorted_intents]

_classify_query_enhanced(query) ==
    LET scores == IntentScores2(query)
        sorted_intents == SortedDescending(Intents, scores)
    IN  [primary_intent |->
            IF scores[sorted_intents[1]] > 0 THEN sorted_intents[1] ELSE "general",
         secondary_intent |->
            IF Len(sorted_intents) > 1 /\ scores[sorted_intents[2]] > 0
            THEN sorted_intents[2] ELSE None,
         confidence2 |-> scores[sorted_intents[1]],
         all_scores2 |-> scores,
         sorted_intents |-> sorted_intents]

-----------------------------------------------------------------------------
(* _extract_key_concepts_enhanced *)

stop_words == {
    "what", "is", "are", "the", "a", "an", "and", "or", "but", "in", "on", "at", "to", "for",
    "of", "with", "by", "how", "why", "when", "where", "who", "which", "that", "this",
    "tell", "me", "about", "show", "find", "list", "describe", "explain", "define",
    "do", "does", "did", "can", "could", "would", "should", "will", "have", "has", "had"}

\* last index of the run of letters that starts at i
RECURSIVE LetterRunEnd(_, _)
LetterRunEnd(s, i) ==
    IF i < Len(s) /\ IsLetter(Ch(s, i + 1)) THEN LetterRunEnd(s, i + 1) ELSE i

\* re.findall(r'\b[a-zA-Z]+\b', s) from position i on: the runs of letters
\* that have no word character (digit, underscore) next to them
RECURSIVE FindWords(_, _)
FindWords(s, i) ==
    IF i > Len(s) THEN <<>>
    ELSE IF IsLetter(Ch(s, i))
         THEN LET j == LetterRunEnd(s, i)
                  bounded == /\ (i = 1 \/ ~IsWordCh(Ch(s, i - 1)))
                             /\ (j = Len(s) \/ ~IsWordCh(Ch(s, j + 1)))
              IN  (IF bounded THEN <<SubSeq(s, i, j)>> ELSE <<>>) \o FindWords(s, j + 1)
         ELSE FindWords(s, i + 1)

\* re.findall of quote ([^quote]+) quote from position i on
RECURSIVE FindQuoted(_, _, _)
FindQuoted(s, i, quote) ==
    IF i > Len(s) THEN <<>>
    ELSE IF Ch(s, i) = quote
              /\ \E j \in (i + 1)..Len(s) : Ch(s, j) = quote
         THEN LET j == CHOOSE k \in (i + 1)..Len(s) :
                          /\ Ch(s, k) = quote
                          /\ \A m \in (i + 1)..(k - 1) : Ch(s, m) # quote
              IN  IF j > i + 1
                  THEN <<SubSeq(s, i + 1, j - 1)>> \o FindQuoted(s, j + 1, quote)
                  ELSE FindQuoted(s, i + 1, quote)
         ELSE FindQuoted(s, i + 1, quote)

\* [word for word in words if word not in stop_words and len(word) > 2]
ConceptWords(query) ==
    LET keep(w) == w \notin stop_words /\ Len(w) > 2
    IN  SelectSeq(FindWords(Lower(query), 1), keep)

\* the bigrams and trigrams of consecutive surviving words longer than 3
MultiWords(concepts) ==
    {concepts[i] \o " " \o concepts[i + 1] :
        i \in {k \in 1..(Len(concepts) - 1) :
                  Len(concepts[k]) > 3 /\ Len(concepts[k + 1]) > 3}}
    \cup
    {concepts[i] \o " " \o concepts[i + 1] \o " " \o concepts[i + 2] :
        i \in {k \in 1..(Len(concepts) - 2) :
                  Len(concepts[k]) > 3 /\ Len(concepts[k + 1]) > 3 /\ Len(concepts[k + 2]) > 3}}

Range(seq) == {seq[i] : i \in 1..Len(seq)}

\* set(concepts + multi_words + quoted_phrases)
AllConcepts(query) ==
    LET concepts == ConceptWords(query)
    IN  Range(concepts) \cup MultiWords(concepts)
        \cup Range(FindQuoted(query, 1, "\"")) \cup Range(FindQuoted(query, 1, "'"))

\* str.find(sub): 0-based index of the first occurrence, -1 when absent
StrFind(s, sub) ==
    IF Contains(s, sub)
    THEN (CHOOSE i \in 1..(Len(s) - Len(sub) + 1) :
              /\ SubSeq(s, i, i + Len(sub) - 1) = sub
              /\ \A k \in 1..(i - 1) : SubSeq(s, k, k + Len(sub) - 1) # sub) - 1
    ELSE -1

\* str.count(sub): non-overlapping occurrences
RECURSIVE StrCount(_, _)
StrCount(s, sub) ==
    LET at == StrFind(s, sub)
    IN  IF at < 0 THEN 0
        ELSE 1 + StrCount(SubSeq(s, at + 1 + Len(sub), Len(s)), sub)

\* frequency, plus 1 when the first occurrence lies in the first 30% of the
\* query (find() < len(query) * 0.3, compared in tenths)
ConceptScore(query, concept) ==
    StrCount(Lower(query), Lower(concept))
    + (IF 10 * StrFind(Lower(query), Lower(concept)) < 3 * Len(query) THEN 1 ELSE 0)

\* sorted(scored_concepts, key=score, reverse=True) over list(set(...)): the
\* sort is stable, the iteration order of a set of strings is arbitrary, so
\* concepts of equal score come out in any order
RECURSIVE SortedConceptLists(_, _)
SortedConceptLists(query, pending) ==
    IF pending = {} THEN {<<>>}
    ELSE LET top == {c \in pending :
                        \A d \in pending : ConceptScore(query, d) <= ConceptScore(query, c)}
         IN  UNION {{<<c>> \o rest : rest \in SortedConceptLists(query, pending \ {c})} :
                        c \in top}

\* a plausible slip: the stop-word filter left out
ExtractWithoutStopWords(query) ==
    LET words == FindWords(Lower(query), 1)
    IN  SortedConceptLists(query,
            Range(words) \cup MultiWords(words)
            \cup Range(FindQuoted(query, 1, "\"")) \cup Range(FindQuoted(query, 1, "'")))

\* the lists _extract_key_concepts_enhanced can return for the query
_extract_key_concepts_enhanced(query) ==
    SortedConceptLists(query, AllConcepts(query))

-----------------------------------------------------------------------------
(* _generate_targeted_sparql_queries: the definition of line 705, which    *)
(* replaces the one of line 113 in the class body and is the one           *)
(* process_query calls. It interpolates the concept as it is.              *)

Query_list_classes(concept) ==
    "\n"
    \o "                        SELECT ?class ?label WHERE {\n"
    \o "                            ?class rdf:type owl:Class .\n"
    \o "                            OPTIONAL { ?class rdfs:label ?label }\n"
    \o "                            FILTER(CONTAINS(LCASE(STR(?class)), LCASE(\""
    \o concept
    \o "\")) || \n"
    \o "                                   CONTAINS(LCASE(STR(?label)), LCASE(\""
    \o concept
    \o "\")))\n"
    \o "                        } LIMIT 20\n"
    \o "                        "

Description_list_classes(concept) ==
    "Classes related to \""
    \o concept
    \o "\""

Query_list_properties(concept) ==
    "\n"
    \o "                        SELECT ?property ?label ?type WHERE {\n"
    \o "                            {\n"
    \o "                                ?property rdf:type owl:ObjectProperty .\n"
    \o "                                BIND(\"ObjectProperty\" AS ?type)\n"
    \o "                            } UNION {\n"
    \o "                                ?property rdf:type owl:DatatypeProperty .\n"
    \o "                                BIND(\"DatatypeProperty\" AS ?type)\n"
    \o "                            }\n"
    \o "                            OPTIONAL { ?property rdfs:label ?label }\n"
    \o "                            FILTER(CONTAINS(LCASE(STR(?property)), LCASE(\""
    \o concept
    \o "\")) || \n"
    \o "                                   CONTAINS(LCASE(STR(?label)), LCASE(\""
    \o concept
    \o "\")))\n"
    \o "                        } LIMIT 15\n"
    \o "                        "

Description_list_properties(concept) ==
    "Properties related to \""
    \o concept
    \o "\""

Query_subclasses(concept) ==
    "\n"
    \o "                        SELECT ?subclass ?label WHERE {\n"
    \o "                            ?class rdf:type owl:Class .\n"
    \o "                            ?subclass rdfs:subClassOf ?class .\n"
    \o "                            OPTIONAL { ?subclass rdfs:label ?label }\n"
    \o "                            FILTER(CONTAINS(LCASE(STR(?class)), LCASE(\""
    \o concept
    \o "\")) || \n"
    \o "                                   CONTAINS(LCASE(STR(?label)), LCASE(\""
    \o concept
    \o "\")))\n"
    \o "                        } LIMIT 15\n"
    \o "                        "

Description_subclasses(concept) ==
    "Subclasses of classes related to \""
    \o concept
    \o "\""

Query_superclasses(concept) ==
    "\n"
    \o "                        SELECT ?superclass ?label WHERE {\n"
    \o "                            ?class rdf:type owl:Class .\n"
    \o "                            ?class rdfs:subClassOf ?superclass .\n"
    \o "                            OPTIONAL { ?superclass rdfs:label ?label }\n"
    \o "                            FILTER(CONTAINS(LCASE(STR(?class)), LCASE(\""
    \o concept
    \o "\")) || \n"
    \o "                                   CONTAINS(LCASE(STR(?label)), LCASE(\""
    \o concept
    \o "\")))\n"
    \o "                        } LIMIT 15\n"
    \o "                        "

Description_superclasses(concept) ==
    "Superclasses of classes related to \""
    \o concept
    \o "\""

Query_relationships(concept1, concept2) ==
    "\n"
    \o "                        SELECT ?subject ?predicate ?object WHERE {\n"
    \o "                            ?subject ?predicate ?object .\n"
    \o "                            FILTER(\n"
    \o "                                (CONTAINS(LCASE(STR(?subject)), LCASE(\""
    \o concept1
    \o "\")) && \n"
    \o "                                 CONTAINS(LCASE(STR(?object)), LCASE(\""
    \o concept2
    \o "\"))) ||\n"
    \o "                                (CONTAINS(LCASE(STR(?subject)), LCASE(\""
    \o concept2
    \o "\")) && \n"
    \o "                                 CONTAINS(LCASE(STR(?object)), LCASE(\""
    \o concept1
    \o "\")))\n"
    \o "                            )\n"
    \o "                        } LIMIT 20\n"
    \o "                        "

Description_relationships(concept1, concept2) ==
    "Relationships between \""
    \o concept1
    \o "\" and \""
    \o concept2
    \o "\""

Query_count_classes(concept) ==
    "\n"
    \o "                        SELECT (COUNT(?class) AS ?count) WHERE {\n"
    \o "                            ?class rdf:type owl:Class .\n"
    \o "                            OPTIONAL { ?class rdfs:label ?label }\n"
    \o "                            FILTER(CONTAINS(LCASE(STR(?class)), LCASE(\""
    \o concept
    \o "\")) || \n"
    \o "                                   CONTAINS(LCASE(STR(?label)), LCASE(\""
    \o concept
    \o "\")))\n"
    \o "                        }\n"
    \o "                        "

Description_count_classes(concept) ==
    "Count of classes related to \""
    \o concept
    \o "\""

QuerySpec(type, query, description) ==
    [type |-> type, query |-> query, description |-> description]

\* seq[:n]
Take(seq, n) == SubSeq(seq, 1, IF n < Len(seq) THEN n ELSE Len(seq))

\* a plausible slip: the loops run over every concept (the [:3], [:2] caps
\* left out) and a relationship query is built from one concept
GenerateUncapped(query, classification, concepts) ==
    LET primary_intent == classification.primary_intent
        n == Len(concepts)
    IN  IF primary_intent = "listing"
        THEN [i \in 1..(2 * n) |->
                IF i % 2 = 1
                THEN QuerySpec("list_classes", Query_list_classes(concepts[(i + 1) \div 2]),
                               Description_list_classes(concepts[(i + 1) \div 2]))
                ELSE QuerySpec("list_properties", Query_list_properties(concepts[i \div 2]),
                               Description_list_properties(concepts[i \div 2]))]
        ELSE IF primary_intent = "hierarchical"
        THEN [i \in 1..(2 * n) |->
                IF i % 2 = 1
                THEN QuerySpec("subclasses", Query_subclasses(concepts[(i + 1) \div 2]),
                               Description_subclasses(concepts[(i + 1) \div 2]))
                ELSE QuerySpec("superclasses", Query_superclasses(concepts[i \div 2]),
                               Description_superclasses(concepts[i \div 2]))]
        ELSE IF primary_intent = "relationship"
        THEN IF n >= 1
             THEN <<QuerySpec("relationships",
                              Query_relationships(concepts[1], concepts[n]),
                              Description_relationships(concepts[1], concepts[n]))>>
             ELSE <<>>
        ELSE IF primary_intent = "count"
        THEN [i \in 1..n |->
                QuerySpec("count_classes", Query_count_classes(concepts[i]),
                          Description_count_classes(concepts[i]))]
        ELSE <<>>

_generate_targeted_sparql_queries(query, classification, concepts) ==
    LET primary_intent == classification.primary_intent
    IN  IF primary_intent = "listing"
        THEN LET cs == Take(concepts, 3)
             IN  [i \in 1..(2 * Len(cs)) |->
                    IF i % 2 = 1
                    THEN QuerySpec("list_classes", Query_list_classes(cs[(i + 1) \div 2]),
                                   Description_list_classes(cs[(i + 1) \div 2]))
                    ELSE QuerySpec("list_properties", Query_list_properties(cs[i \div 2]),
                                   Description_list_properties(cs[i \div 2]))]
        ELSE IF primary_intent = "hierarchical"
        THEN LET cs == Take(concepts, 2)
             IN  [i \in 1..(2 * Len(cs)) |->
                    IF i % 2 = 1
                    THEN QuerySpec("subclasses", Query_subclasses(cs[(i + 1) \div 2]),
                                   Description_subclasses(cs[(i + 1) \div 2]))
                    ELSE QuerySpec("superclasses", Query_superclasses(cs[i \div 2]),
                                   Description_superclasses(cs[i \div 2]))]
        ELSE IF primary_intent = "relationship"
        THEN IF Len(concepts) >= 2
             THEN <<QuerySpec("relationships",
                              Query_relationships(concepts[1], concepts[2]),
                              Description_relationships(concepts[1], concepts[2]))>>
             ELSE <<>>
        ELSE IF primary_intent = "count"
        THEN LET cs == Take(concepts, 2)
             IN  [i \in 1..Len(cs) |->
                    QuerySpec("count_classes", Query_count_classes(cs[i]),
                              Description_count_classes(cs[i]))]
        ELSE <<>>

-----------------------------------------------------------------------------
(* _preprocess_query *)

\* re.sub(r'\s+', ' ', s): every run of whitespace becomes one space
RECURSIVE CollapseWhitespace(_)
CollapseWhitespace(s) ==
    IF s = "" THEN ""
    ELSE IF IsSpaceCh(Head(s))
         THEN " " \o CollapseWhitespace(LStrip(s))
         ELSE Head(s) \o CollapseWhitespace(Tail(s))

\* re.sub(r'\bword\b', expansion, s, flags=re.IGNORECASE) from position i on
RECURSIVE SubWord(_, _, _, _)
SubWord(s, i, word, expansion) ==
    IF i > Len(s) THEN ""
    ELSE LET j == i + Len(word) - 1
         IN  IF /\ j <= Len(s)
                /\ Lower(SubSeq(s, i, j)) = word
                /\ (i = 1 \/ ~IsWordCh(Ch(s, i - 1)))
                /\ (j = Len(s) \/ ~IsWordCh(Ch(s, j + 1)))
             THEN expansion \o SubWord(s, j + 1, word, expansion)
             ELSE Ch(s, i) \o SubWord(s, i + 1, word, expansion)

_preprocess_query(query) ==
    LET q0 == CollapseWhitespace(Strip(query))
        q1 == SubWord(q0, 1, "whats", "what is")
        q2 == SubWord(q1, 1, "whos", "who is")
        q3 == SubWord(q2, 1, "wheres", "where is")
        q4 == SubWord(q3, 1, "hows", "how is")
    IN  SubWord(q4, 1, "whens", "when is")

-----------------------------------------------------------------------------
(* The collaborators: what the vector store, the chain and the graph       *)
(* engine can answer. A dictionary is a record together with the set of    *)
(* its keys; a key outside `keys` is absent from the dictionary. A hit     *)
(* carries the six fields the vector store returns for every entity.       *)

BaseKeys == {"uri", "local_name", "type", "labels", "comments", "similarity_score"}

Hit(keys, uri, local_name, type, labels, comments, permille) ==
    [keys |-> keys, uri |-> uri, local_name |-> local_name, type |-> type,
     labels |-> labels, comments |-> comments, similarity_score |-> permille,
     related_entities |-> <<>>, instances |-> <<>>, sibling_classes |-> <<>>,
     usage_examples |-> <<>>]

HitAnimal == Hit(BaseKeys, "ex:Animal", "Animal", "Class",
                 <<"Animal", "Creature">>, <<"A living being.", "Kingdom Animalia.", "Third">>, 873)
HitCat == Hit(BaseKeys, "ex:Cat", "Cat", "Class", <<"Cat">>, <<>>, 650)
HitHasName == Hit(BaseKeys, "ex:hasName", "hasName", "DatatypeProperty", <<>>, <<"The name.">>, 1000)
HitIndividual(i) ==
    Hit(BaseKeys, "ex:Tom" \o Ch(Digits, i + 1), "Tom" \o Ch(Digits, i + 1), "Individual",
        <<>>, <<>>, 400 + i)
\* the result lists search_similar can return
HitLists == {
    <<>>,
    <<HitAnimal>>,
    <<HitCat, HitHasName>>,
    [i \in 1..6 |-> HitIndividual(i)]}

Named(prefix, n) ==
    [i \in 1..n |-> [uri |-> "ex:" \o prefix \o Ch(Digits, i + 1),
                     local_name |-> prefix \o Ch(Digits, i + 1),
                     label |-> prefix \o Ch(Digits, i + 1)]]

\* rdf_manager.find_related_entities(uri, max_depth=1) when it returns
RelatedOf(uri) ==
    IF uri = "ex:Animal" THEN Named("Rel", 9)
    ELSE IF uri = "ex:Cat" THEN Named("Rel", 2)
    ELSE IF uri = "ex:hasName" THEN Named("Rel", 1)
    ELSE <<>>

\* rows of the instance, sibling and usage queries when query_sparql returns
InstancesOf(uri) == IF uri = "ex:Animal" THEN Named("Inst", 6) ELSE <<>>
SiblingsOf(uri) ==
    IF uri = "ex:Animal" THEN Named("Sib", 6)
    ELSE IF uri = "ex:Cat" THEN Named("Sib", 1) ELSE <<>>
UsageOf(uri) ==
    IF uri = "ex:hasName"
    THEN [i \in 1..4 |-> [subject |-> "Tom" \o Ch(Digits, i + 1), object |-> "name"]]
    ELSE <<>>

\* the rows query_sparql returns for a synthesized query: a row is a list of
\* (binding, value) pairs; an empty value is a binding left unbound
RowsOf(type) ==
    IF type = "count_classes" THEN << <<<<"count", "3">>>> >>
    ELSE [i \in 1..6 |-> << <<"class", "ex:C" \o Ch(Digits, i + 1)>>,
                            <<"label", IF i = 2 THEN "" ELSE "C" \o Ch(Digits, i + 1)>> >>]

\* None
NoChainResult ==
    [is_none |-> TRUE, keys |-> {}, error |-> "", answer |-> "", sparql_query |-> ""]

\* a dictionary with the given keys; the value of a key it does not have is
\* written ""
ChainDict(keys, error, answer, sparql_query) ==
    [is_none |-> FALSE, keys |-> keys, error |-> error, answer |-> answer,
     sparql_query |-> sparql_query]

\* {'error': str(e)}
ChainErrorDict(message) == ChainDict({"error"}, message, "", "")

\* what rdf_manager.query_with_langchain can return
ChainReturns == [
    answer |-> ChainDict({"answer", "sparql_query"}, "", "Cats are animals.",
                         "SELECT ?s WHERE { ?s a ex:Cat }"),
    error |-> ChainErrorDict("chain failed"),
    none |-> NoChainResult]

\* str(e) of the exception query_with_langchain can raise: a message, or
\* none
ChainExceptionTexts == {"chain raised", ""}

-----------------------------------------------------------------------------
(* _enhance_entity_with_relations and its three lookups *)

\* one invocation of a collaborator, as the call log records it
Call(op, purpose, arg, outcome, returned) ==
    [op |-> op, purpose |-> purpose, arg |-> arg, outcome |-> outcome,
     returned |-> returned]

\* how the follow-up lookups of one hit can end
LookupOutcomes ==
    [related : {"ok", "raise"}, instances : {"ok", "raise"},
     siblings : {"ok", "raise"}, usage : {"ok", "raise"}]

\* the outcomes that differ for the lookups the entity actually triggers
EnhanceOutcomes(entity) ==
    {o \in LookupOutcomes :
        /\ ("uri" \notin entity.keys \/ o.related = "raise") =>
              o.instances = "ok" /\ o.siblings = "ok" /\ o.usage = "ok"
        /\ "uri" \notin entity.keys => o.related = "ok"
        /\ (entity.type # "Class" \/ "type" \notin entity.keys) =>
              o.instances = "ok" /\ o.siblings = "ok"
        /\ (entity.type \notin {"ObjectProperty", "DatatypeProperty"}
              \/ "type" \notin entity.keys) => o.usage = "ok"}

UriLabel(rows) == [i \in 1..Len(rows) |-> [uri |-> rows[i].uri, label |-> rows[i].label]]

\* _find_class_instances: the rows of the instance query, [] when it fails
_find_class_instances(class_uri, outcome) ==
    IF outcome = "ok" THEN UriLabel(InstancesOf(class_uri)) ELSE <<>>

\* _find_sibling_classes: the rows of the sibling query, [] when it fails
_find_sibling_classes(class_uri, outcome) ==
    IF outcome = "ok" THEN UriLabel(SiblingsOf(class_uri)) ELSE <<>>

\* _find_property_usage_examples: the rows of the usage query, [] when it fails
_find_property_usage_examples(property_uri, outcome) ==
    IF outcome = "ok" THEN UsageOf(property_uri) ELSE <<>>

\* the enhanced copy of the entity, or raised = TRUE when the exception
\* leaves the method: the except clause formats entity['uri'] itself
_enhance_entity_with_relations(entity, o) ==
    IF "uri" \notin entity.keys
    THEN [raised |-> TRUE, value |-> entity, calls |-> <<>>]
    ELSE LET relCall == Call("find_related_entities", "related", entity.uri, o.related, <<>>)
         IN
         IF o.related = "raise"
         THEN [raised |-> FALSE, value |-> entity, calls |-> <<relCall>>]
         ELSE LET withRelated ==
                      [entity EXCEPT !.keys = @ \cup {"related_entities"},
                                     !.related_entities = Take(RelatedOf(entity.uri), 8)]
              IN
              IF "type" \notin entity.keys
              THEN [raised |-> FALSE, value |-> entity, calls |-> <<relCall>>]
              ELSE IF entity.type = "Class"
              THEN [raised |-> FALSE,
                    value |-> [withRelated EXCEPT
                        !.keys = @ \cup {"instances", "sibling_classes"},
                        !.instances = Take(_find_class_instances(entity.uri, o.instances), 5),
                        !.sibling_classes =
                            Take(_find_sibling_classes(entity.uri, o.siblings), 5)],
                    calls |-> <<relCall,
                                Call("query_sparql", "instances", entity.uri, o.instances, <<>>),
                                Call("query_sparql", "siblings", entity.uri, o.siblings, <<>>)>>]
              ELSE IF entity.type \in {"ObjectProperty", "DatatypeProperty"}
              THEN [raised |-> FALSE,
                    value |-> [withRelated EXCEPT
                        !.keys = @ \cup {"usage_examples"},
                        !.usage_examples =
                            Take(_find_property_usage_examples(entity.uri, o.usage), 3)],
                    calls |-> <<relCall,
                                Call("query_sparql", "usage", entity.uri, o.usage, <<>>)>>]
              ELSE [raised |-> FALSE, value |-> withRelated, calls |-> <<relCall>>]

-----------------------------------------------------------------------------
(* _generate_comprehensive_context. The context is kept as the list        *)
(* context_parts; the code returns its lines joined by a newline.          *)

\* sep.join(items)
RECURSIVE Join(_, _)
Join(items, sep) ==
    IF Len(items) = 0 THEN ""
    ELSE IF Len(items) = 1 THEN items[1]
    ELSE items[1] \o sep \o Join(Tail(items), sep)

Digit(n) == Ch(Digits, n + 1)

\* f"{score:.3f}" for a score given in thousandths
Format3f(permille) ==
    Digit(permille \div 1000) \o "." \o Digit((permille \div 100) % 10)
    \o Digit((permille \div 10) % 10) \o Digit(permille % 10)

ChainSectionHeader == "=== LANGCHAIN SPARQL ANALYSIS ==="
EntitySectionHeader == "=== RELEVANT ENTITIES FROM KNOWLEDGE GRAPH ==="
DirectSectionHeader == "=== ADDITIONAL SPARQL QUERY RESULTS ==="
SchemaSectionHeader == "=== ONTOLOGY SCHEMA OVERVIEW ==="
InstructionsHeader == "=== INSTRUCTIONS ==="

\* rdf_manager.get_schema_summary() when it returns
SchemaSummary == "Classes: 3, Properties: 1, Individuals: 6"

\* res.get('sparql_chain_result') is truthy: a dictionary with an entry
ChainResultTruthy(r) == ~r.is_none /\ r.keys # {}

MetadataPart(res) ==
    <<"User Query: " \o res.original_query,
      "Query Intent: " \o res.query_classification.primary_intent>>
    \o (IF res.query_classification.secondary_intent # None
        THEN <<"Secondary Intent: " \o res.query_classification.secondary_intent>>
        ELSE <<>>)
    \o <<"Key Concepts: " \o Join(Take(res.key_concepts, 5), ", "), "">>

ChainPart(res) ==
    LET r == res.sparql_chain_result
    IN  IF ChainResultTruthy(r) /\ r.error = ""
        THEN <<ChainSectionHeader>>
             \o (IF r.answer # "" THEN <<"Generated Answer: " \o r.answer>> ELSE <<>>)
             \o (IF r.sparql_query # "" THEN <<"SPARQL Query Used: " \o r.sparql_query>>
                 ELSE <<>>)
             \o <<"">>
        ELSE <<>>

LocalNames(items) == [i \in 1..Len(items) |-> items[i].local_name]
Labels(items) == [i \in 1..Len(items) |-> items[i].label]

\* the lines of one entity of the semantic-search section
EntityLines(i, entity) ==
    <<Digit(i) \o ". " \o entity.local_name \o " (" \o entity.type \o ")",
      "   URI: " \o entity.uri>>
    \o (IF "labels" \in entity.keys /\ entity.labels # <<>>
        THEN <<"   Labels: " \o Join(entity.labels, ", ")>> ELSE <<>>)
    \o (IF "comments" \in entity.keys /\ entity.comments # <<>>
        THEN <<"   Description: " \o Join(Take(entity.comments, 2), " ")>> ELSE <<>>)
    \o (IF "related_entities" \in entity.keys /\ entity.related_entities # <<>>
        THEN <<"   Related to: "
               \o Join(Take(LocalNames(entity.related_entities), 3), ", ")>>
        ELSE <<>>)
    \o (IF "instances" \in entity.keys /\ entity.instances # <<>>
        THEN <<"   Examples: " \o Join(Take(Labels(entity.instances), 3), ", ")>> ELSE <<>>)
    \o <<"   Similarity Score: "
         \o Format3f(IF "similarity_score" \in entity.keys
                     THEN entity.similarity_score ELSE 0),
         "">>

RECURSIVE Flatten(_)
Flatten(seqs) == IF Len(seqs) = 0 THEN <<>> ELSE seqs[1] \o Flatten(Tail(seqs))

EntityPart(res) ==
    LET shown == Take(res.vector_search_results, 5)
    IN  IF res.vector_search_results # <<>>
        THEN <<EntitySectionHeader>>
             \o Flatten([i \in 1..Len(shown) |-> EntityLines(i, shown[i])])
        ELSE <<>>

\* ", ".join(f"{k}: {v}" for k, v in res.items() if v)
RowText(row) ==
    LET bound == SelectSeq(row, LAMBDA kv : kv[2] # "")
    IN  Join([i \in 1..Len(bound) |-> bound[i][1] \o ": " \o bound[i][2]], ", ")

DirectResultLines(entry) ==
    LET rows == Take(entry.results, 5)
    IN  <<entry.description \o ":">>
        \o [i \in 1..Len(rows) |-> "  " \o Digit(i) \o ". " \o RowText(rows[i])]
        \o <<"">>

DirectPart(res) ==
    IF res.direct_sparql_results # <<>>
    THEN <<DirectSectionHeader>>
         \o Flatten([i \in 1..Len(res.direct_sparql_results) |->
                        DirectResultLines(res.direct_sparql_results[i])])
    ELSE <<>>

\* the schema overview is asked for when there is no hit and no chain res
NeedsSchema(res) ==
    res.vector_search_results = <<>> /\ ~ChainResultTruthy(res.sparql_chain_result)

SchemaPart(res) ==
    IF NeedsSchema(res) THEN <<SchemaSectionHeader, SchemaSummary, "">> ELSE <<>>

InstructionsPart ==
    <<InstructionsHeader,
      "Based on the above information from the RDF knowledge graph:",
      "1. Provide a comprehensive and accurate answer to the user's query",
      "2. Prioritize information from the LangChain SPARQL analysis if available",
      "3. Use the relevant entities and SPARQL results to provide detailed explanations",
      "4. Explain relationships and concepts clearly with examples where available",
      "5. If information is insufficient, acknowledge this and suggest related topics",
      "6. Focus on the most relevant information based on the query intent">>

\* a key read with [] is missing from one of the entities shown
EntityKeyMissing(res) ==
    \E i \in 1..Len(Take(res.vector_search_results, 5)) :
        ~({"local_name", "type", "uri"} \subseteq res.vector_search_results[i].keys)

\* lines 852-853: the first key read with [] that an entity shown lacks
FirstMissingKey(res) ==
    LET shown == Take(res.vector_search_results, 5)
        lacking == {i \in 1..Len(shown) :
                       ~({"local_name", "type", "uri"} \subseteq shown[i].keys)}
        first == CHOOSE i \in lacking : \A j \in lacking : i <= j
    IN  IF "local_name" \notin shown[first].keys THEN "local_name"
        ELSE IF "type" \notin shown[first].keys THEN "type"
        ELSE "uri"

\* lines 902-904: str(e) of a KeyError is the key in quotes
ContextKeyError(res) == <<"Error generating context: '" \o FirstMissingKey(res) \o "'">>

\* schema is "ok" or "raise": how get_schema_summary ends if it is called
_generate_comprehensive_context(res, schema) ==
    IF EntityKeyMissing(res)
    THEN ContextKeyError(res)
    ELSE IF NeedsSchema(res) /\ schema = "raise"
    THEN <<"Error generating context: schema summary failed">>
    ELSE MetadataPart(res) \o ChainPart(res) \o EntityPart(res)
         \o DirectPart(res) \o SchemaPart(res) \o InstructionsPart

-----------------------------------------------------------------------------
(* process_query: the result dictionary *)

NoClassification ==
    [primary_intent |-> "general", secondary_intent |-> None, confidence2 |-> 0,
     all_scores2 |-> [definition |-> 0, relationship |-> 0, property |-> 0, listing |-> 0,
                      comparison |-> 0, hierarchical |-> 0, existence |-> 0, count |-> 0],
     sorted_intents |-> Intents]

\* no dictionary yet
NoResult ==
    [keys |-> {}, original_query |-> "", cleaned_query |-> "",
     query_classification |-> NoClassification, key_concepts |-> <<>>,
     vector_search_results |-> <<>>, sparql_chain_result |-> NoChainResult,
     direct_sparql_results |-> <<>>, context |-> <<>>, success |-> FALSE,
     processing_method |-> <<>>, enhanced_entities |-> <<>>, error |-> ""]

\* lines 415-426
InitialResult(user_query, cleaned_query, query_classification, key_concepts) ==
    [NoResult EXCEPT
        !.keys = {"original_query", "cleaned_query", "query_classification", "key_concepts",
                  "vector_search_results", "sparql_chain_result", "direct_sparql_results",
                  "context", "success", "processing_method"},
        !.original_query = user_query,
        !.cleaned_query = cleaned_query,
        !.query_classification = query_classification,
        !.key_concepts = key_concepts,
        !.success = TRUE]

\* str(e) of the AttributeError an attribute read on a value without it raises
NoAttributeError(py_type, attribute) ==
    "'" \o py_type \o "' object has no attribute '" \o attribute \o "'"

\* the types of the user_query values that are no strings: None, an int
NonStringTypes == {"NoneType", "int"}

\* lines 506-512: the dictionary the outer except clause returns
FailureResult(user_query, error) ==
    [NoResult EXCEPT
        !.keys = {"original_query", "error", "success"},
        !.original_query = user_query,
        !.error = error,
        !.success = FALSE]

\* a plausible slip: step 3 runs for every intent
StructuredIntentsAll == IntentSet \cup {"general"}

\* line 465
StructuredIntents == {"listing", "hierarchical", "count", "relationship"}

-----------------------------------------------------------------------------
(* Specification SpecEscape: escape applied once, then a second time *)

EscAlphabet == {"a", "n", " ", "-", ".", "\"", "'", "\\", "\n", "\t", "$"}

RECURSIVE StringsUpTo(_, _)
StringsUpTo(alphabet, n) ==
    IF n = 0 THEN {""}
    ELSE LET shorter == StringsUpTo(alphabet, n - 1)
         IN  shorter \cup {s \o c : s \in shorter, c \in alphabet}

EscIdle == escPc = "idle" /\ escText = "" /\ escOnce = "" /\ escTwice = ""
QIdle == qPc = "idle" /\ qText = "" /\ qClass = "None" /\ qConcepts = <<>>
SynIdle == synPc = "idle" /\ synIntent = "general" /\ synConcepts = <<>> /\ synQueries = <<>>
PqIdle ==
    /\ pc = "idle"
    /\ args = [user_query |-> "", is_str |-> TRUE, py_type |-> "str", top_k |-> 15,
               use_sparql_chain |-> TRUE, include_vector_search |-> TRUE]
    /\ vector_store = FALSE
    /\ sparql_chain = FALSE
    /\ result = NoResult
    /\ enhanced_results = <<>>
    /\ calls = <<>>

\* no dictionary returned by chat yet
\* the tables as __init__ built them
TablesBuilt == query_patterns = QueryPatterns /\ intent_keywords = IntentKeywords

\* no call of process_query
NoRequest ==
    [pc |-> "idle",
     args |-> [user_query |-> "", is_str |-> TRUE, py_type |-> "str", top_k |-> 15,
               use_sparql_chain |-> TRUE, include_vector_search |-> TRUE],
     result |-> NoResult, enhanced_results |-> <<>>, calls |-> <<>>]

\* there is no second call
OneRequest ==
    /\ phase = "one" /\ running = "A" /\ mixed = FALSE
    /\ suspended = NoRequest /\ interleaved = NoRequest

NoChatResult ==
    [keys |-> {}, user_message |-> "", response |-> <<>>, success |-> FALSE, error |-> "",
     query_classification |-> NoClassification, key_concepts |-> <<>>,
     processing_methods |-> <<>>, num_relevant_entities |-> 0,
     vector_search_results |-> <<>>, sparql_chain_result |-> NoChainResult,
     direct_sparql_results |-> <<>>, context_used |-> <<>>]

ChatIdle ==
    /\ chatPc = "idle"
    /\ chatArgs = [user_message |-> "", is_str |-> TRUE, py_type |-> "str",
                   include_context |-> FALSE,
                   use_sparql_chain |-> TRUE, max_entities |-> 10]
    /\ llm = FALSE
    /\ query_processor_ready = FALSE
    /\ llmCalls = <<>>
    /\ chatResult = NoChatResult

KbIdle == kbIndex = {} /\ kbGraph = <<>> /\ kbLog = <<>>

EscInit ==
    /\ escPc = "in"
    /\ escText \in StringsUpTo(EscAlphabet, MaxEscLen)
    /\ escOnce = ""
    /\ escTwice = ""
    /\ QIdle /\ SynIdle /\ PqIdle /\ ChatIdle /\ KbIdle
    /\ TablesBuilt /\ OneRequest

EscapeOnce ==
    /\ escPc = "in"
    /\ escOnce' = _escape_sparql_string(escText)
    /\ escPc' = "once"
    /\ UNCHANGED <<escText, escTwice, qVars, synVars, pqVars, chatVars, kbVars,
                   tableVars, reqVars>>

EscapeTwice ==
    /\ escPc = "once"
    /\ escTwice' = _escape_sparql_string(escOnce)
    /\ escPc' = "twice"
    /\ UNCHANGED <<escText, escOnce, qVars, synVars, pqVars, chatVars, kbVars,
                   tableVars, reqVars>>

EscNext == EscapeOnce \/ EscapeTwice

SpecEscape == EscInit /\ [][EscNext]_vars


-----------------------------------------------------------------------------
(* Specification SpecQuery: classify, then extract, applied to a query *)

Vocabulary == {"what", "the", "list", "all", "vs", "cats", "\"the\"", "'Cats'"}

RECURSIVE QueriesUpTo(_)
QueriesUpTo(n) ==
    IF n = 0 THEN {""}
    ELSE LET shorter == QueriesUpTo(n - 1)
         IN  shorter \cup {IF q = "" THEN w ELSE q \o " " \o w :
                              q \in shorter, w \in Vocabulary}

QInit ==
    /\ qPc = "in"
    /\ qText \in QueriesUpTo(MaxQueryWords)
    /\ qClass = None
    /\ qConcepts = <<>>
    /\ EscIdle /\ SynIdle /\ PqIdle /\ ChatIdle /\ KbIdle
    /\ TablesBuilt /\ OneRequest

Classify ==
    /\ qPc = "in"
    /\ qClass' = _classify_query_enhanced(qText)
    /\ qPc' = "classified"
    /\ UNCHANGED <<qText, qConcepts, escVars, synVars, pqVars, chatVars, kbVars,
                   tableVars, reqVars>>

Extract ==
    /\ qPc = "classified"
    /\ qConcepts' \in _extract_key_concepts_enhanced(qText)
    /\ qPc' = "extracted"
    /\ UNCHANGED <<qText, qClass, escVars, synVars, pqVars, chatVars, kbVars,
                   tableVars, reqVars>>

QNext == Classify \/ Extract

SpecQuery == QInit /\ [][QNext]_vars

-----------------------------------------------------------------------------
(* Specification SpecSynth: the synthesizer applied to an intent and a     *)
(* concept list                                                            *)

SynthConcepts == {"cats", "big dogs", "a\"b"}

RECURSIVE SeqsUpTo(_, _)
SeqsUpTo(S, n) ==
    IF n = 0 THEN {<<>>}
    ELSE LET shorter == SeqsUpTo(S, n - 1)
         IN  shorter \cup {Append(t, x) : t \in shorter, x \in S}

SynInit ==
    /\ synPc = "in"
    /\ synIntent \in IntentSet \cup {"general"}
    /\ synConcepts \in SeqsUpTo(SynthConcepts, MaxConcepts)
    /\ synQueries = <<>>
    /\ EscIdle /\ QIdle /\ PqIdle /\ ChatIdle /\ KbIdle
    /\ TablesBuilt /\ OneRequest

Synthesize ==
    /\ synPc = "in"
    /\ synQueries' = _generate_targeted_sparql_queries(
                        "test query", [primary_intent |-> synIntent], synConcepts)
    /\ synPc' = "out"
    /\ UNCHANGED <<synIntent, synConcepts, escVars, qVars, pqVars, chatVars, kbVars,
                   tableVars, reqVars>>

SynNext == Synthesize

SpecSynth == SynInit /\ [][SynNext]_vars

-----------------------------------------------------------------------------
(* Specification SpecPipeline: steps 402-412 and 467-471 of process_query  *)
(* without the collaborators: preprocess, classify, extract, synthesize    *)

ExampleWords == {"list", "all", "animals", "whats"}

RECURSIVE PhrasesUpTo(_, _)
PhrasesUpTo(words, n) ==
    IF n = 0 THEN {""}
    ELSE LET shorter == PhrasesUpTo(words, n - 1)
         IN  shorter \cup {IF q = "" THEN w ELSE q \o " " \o w :
                              q \in shorter, w \in words}

PipeInit ==
    /\ qPc = "in"
    /\ qText \in {_preprocess_query(q) : q \in PhrasesUpTo(ExampleWords, MaxExampleWords)}
    /\ qClass = None
    /\ qConcepts = <<>>
    /\ EscIdle /\ SynIdle /\ PqIdle /\ ChatIdle /\ KbIdle
    /\ TablesBuilt /\ OneRequest

\* lines 465-471: the synthesizer applied to what classify and extract gave
SynthesizeExtracted ==
    /\ qPc = "extracted"
    /\ synPc = "idle"
    /\ synIntent' = qClass.primary_intent
    /\ synConcepts' = qConcepts
    /\ synQueries' = IF qClass.primary_intent \in StructuredIntents
                     THEN _generate_targeted_sparql_queries(qText, qClass, qConcepts)
                     ELSE <<>>
    /\ synPc' = "out"
    /\ UNCHANGED <<qVars, escVars, pqVars, chatVars, kbVars,
                   tableVars, reqVars>>

PipeNext == Classify \/ Extract \/ SynthesizeExtracted

SpecPipeline == PipeInit /\ [][PipeNext]_vars

-----------------------------------------------------------------------------
(* Specification Spec: one call of process_query, step by step *)

UserQueries == {"What is a Person?", "list cats", "list 'a\" b'", "count cats",
                "how is cat related to dog", "hierarchy", "Cat vs Dog", "the",
                "whats  a cat"}

Init ==
    /\ pc = "start"
    /\ \E q \in UserQueries, t \in NonStringTypes,
          use_chain \in BOOLEAN, include_vector \in BOOLEAN :
          args \in {[user_query |-> q, is_str |-> TRUE, py_type |-> "str", top_k |-> 15,
                     use_sparql_chain |-> use_chain, include_vector_search |-> include_vector],
                    [user_query |-> "", is_str |-> FALSE, py_type |-> t, top_k |-> 15,
                     use_sparql_chain |-> use_chain, include_vector_search |-> include_vector]}
    /\ vector_store \in BOOLEAN
    /\ sparql_chain \in BOOLEAN
    /\ result = NoResult
    /\ enhanced_results = <<>>
    /\ calls = <<>>
    /\ EscIdle /\ QIdle /\ SynIdle /\ ChatIdle /\ KbIdle
    /\ TablesBuilt /\ OneRequest

\* lines 402-426 with a user_query that is no string: _preprocess_query
\* raises and the outer except clause returns the failure dictionary
PreprocessRaises ==
    /\ pc = "start"
    /\ ~args.is_str
    /\ result' = FailureResult(args.user_query, NoAttributeError(args.py_type, "strip"))
    /\ pc' = "done"
    /\ UNCHANGED <<args, vector_store, sparql_chain, enhanced_results, calls,
                   escVars, qVars, synVars, chatVars, kbVars,
                   tableVars, reqVars>>

\* a plausible slip: the concepts found are added to the keyword list of the
\* primary intent, the list being the one of the shared table and no copy
PrepareExtendingKeywords ==
    /\ pc = "start"
    /\ args.is_str
    /\ LET cleaned_query == _preprocess_query(args.user_query)
           classification == _classify_query_enhanced(cleaned_query)
       IN  \E key_concepts \in _extract_key_concepts_enhanced(cleaned_query) :
              /\ result' = InitialResult(args.user_query, cleaned_query, classification,
                                         key_concepts)
              /\ intent_keywords' =
                    IF classification.primary_intent \in IntentSet
                    THEN [intent_keywords EXCEPT
                            ![classification.primary_intent] =
                                @ \cup {key_concepts[i] : i \in DOMAIN key_concepts}]
                    ELSE intent_keywords
    /\ pc' = "vector"
    /\ UNCHANGED <<args, vector_store, sparql_chain, enhanced_results, calls,
                   escVars, qVars, synVars, chatVars, kbVars, query_patterns, reqVars>>

\* lines 402-426: preprocess, classify, extract, initialise the result
Prepare ==
    /\ pc = "start"
    /\ args.is_str
    /\ LET cleaned_query == _preprocess_query(args.user_query)
       IN  \E key_concepts \in _extract_key_concepts_enhanced(cleaned_query) :
              result' = InitialResult(args.user_query, cleaned_query,
                                      _classify_query_enhanced(cleaned_query), key_concepts)
    /\ pc' = "vector"
    /\ UNCHANGED <<args, vector_store, sparql_chain, enhanced_results, calls,
                   escVars, qVars, synVars, chatVars, kbVars,
                   tableVars, reqVars>>

\* a plausible slip: the first hit is enriched as soon as the search
\* returns, before the chain and the structured queries have run
VectorSearchReturnsEnriching ==
    /\ pc = "vector"
    /\ args.include_vector_search /\ vector_store
    /\ \E vector_results \in HitLists :
          /\ result' = [result EXCEPT
                            !.vector_search_results = vector_results,
                            !.processing_method = Append(@, "vector_search")]
          /\ calls' = Append(calls, Call("search_similar", "vector",
                                         result.cleaned_query, "ok", vector_results))
                      \o (IF vector_results = <<>> THEN <<>>
                          ELSE <<Call("find_related_entities", "related",
                                      vector_results[1].uri, "ok", <<>>)>>)
    /\ pc' = "chain"
    /\ UNCHANGED <<args, vector_store, sparql_chain, enhanced_results,
                   escVars, qVars, synVars, chatVars, kbVars,
                   tableVars, reqVars>>

\* lines 429-439: search_similar returns
VectorSearchReturns ==
    /\ pc = "vector"
    /\ args.include_vector_search /\ vector_store
    /\ \E vector_results \in HitLists :
          /\ result' = [result EXCEPT
                            !.vector_search_results = vector_results,
                            !.processing_method = Append(@, "vector_search")]
          /\ calls' = Append(calls, Call("search_similar", "vector",
                                         result.cleaned_query, "ok", vector_results))
    /\ pc' = "chain"
    /\ UNCHANGED <<args, vector_store, sparql_chain, enhanced_results,
                   escVars, qVars, synVars, chatVars, kbVars,
                   tableVars, reqVars>>

\* a plausible slip: the search runs outside the inner try, so its
\* exception reaches the outer except clause
VectorSearchRaisesAborts ==
    /\ pc = "vector"
    /\ args.include_vector_search /\ vector_store
    /\ result' = FailureResult(args.user_query, "search failed")
    /\ calls' = Append(calls, Call("search_similar", "vector", result.cleaned_query,
                                   "raise", <<>>))
    /\ pc' = "done"
    /\ UNCHANGED <<args, vector_store, sparql_chain, enhanced_results,
                   escVars, qVars, synVars, chatVars, kbVars,
                   tableVars, reqVars>>

\* lines 429-442: search_similar raises
VectorSearchRaises ==
    /\ pc = "vector"
    /\ args.include_vector_search /\ vector_store
    /\ result' = [result EXCEPT !.vector_search_results = <<>>]
    /\ calls' = Append(calls, Call("search_similar", "vector", result.cleaned_query,
                                   "raise", <<>>))
    /\ pc' = "chain"
    /\ UNCHANGED <<args, vector_store, sparql_chain, enhanced_results,
                   escVars, qVars, synVars, chatVars, kbVars,
                   tableVars, reqVars>>

\* lines 429, 443-445: the search is switched off or there is no store
VectorSearchSkipped ==
    /\ pc = "vector"
    /\ ~(args.include_vector_search /\ vector_store)
    /\ result' = [result EXCEPT !.vector_search_results = <<>>]
    /\ pc' = "chain"
    /\ UNCHANGED <<args, vector_store, sparql_chain, enhanced_results, calls,
                   escVars, qVars, synVars, chatVars, kbVars,
                   tableVars, reqVars>>

\* lines 448-458: query_with_langchain returns; a None result makes
\* sparql_result.get raise inside the try, after the method was recorded
ChainQAReturns ==
    /\ pc = "chain"
    /\ args.use_sparql_chain /\ sparql_chain
    /\ \E kind \in DOMAIN ChainReturns :
          /\ result' = [result EXCEPT
                !.sparql_chain_result =
                    IF ChainReturns[kind].is_none
                    THEN ChainErrorDict("'NoneType' object has no attribute 'get'")
                    ELSE ChainReturns[kind],
                !.processing_method = Append(@, "sparql_chain")]
          /\ calls' = Append(calls, Call("query_with_langchain", "chain",
                                         result.cleaned_query, kind, ChainReturns[kind]))
    /\ pc' = "direct"
    /\ UNCHANGED <<args, vector_store, sparql_chain, enhanced_results,
                   escVars, qVars, synVars, chatVars, kbVars,
                   tableVars, reqVars>>

\* a plausible slip: the chain call runs outside the inner try, so its
\* exception reaches the outer except clause
ChainQARaisesAborts ==
    /\ pc = "chain"
    /\ args.use_sparql_chain /\ sparql_chain
    /\ \E message \in ChainExceptionTexts :
          /\ result' = FailureResult(args.user_query, message)
          /\ calls' = Append(calls, Call("query_with_langchain", "chain",
                                         result.cleaned_query, "raise",
                                         [NoChainResult EXCEPT !.error = message]))
    /\ pc' = "done"
    /\ UNCHANGED <<args, vector_store, sparql_chain, enhanced_results,
                   escVars, qVars, synVars, chatVars, kbVars,
                   tableVars, reqVars>>

\* a plausible slip: the except clause only logs
ChainQARaisesUntagged ==
    /\ pc = "chain"
    /\ args.use_sparql_chain /\ sparql_chain
    /\ calls' = Append(calls, Call("query_with_langchain", "chain",
                                   result.cleaned_query, "raise", NoChainResult))
    /\ pc' = "direct"
    /\ UNCHANGED <<args, vector_store, sparql_chain, result, enhanced_results,
                   escVars, qVars, synVars, chatVars, kbVars,
                   tableVars, reqVars>>

\* lines 448-462: query_with_langchain raises; the except clause stores
\* {'error': str(e)}. The call log has nothing returned, and the text of the
\* exception in the error field
ChainQARaises ==
    /\ pc = "chain"
    /\ args.use_sparql_chain /\ sparql_chain
    /\ \E message \in ChainExceptionTexts :
          /\ result' = [result EXCEPT !.sparql_chain_result = ChainErrorDict(message)]
          /\ calls' = Append(calls, Call("query_with_langchain", "chain",
                                         result.cleaned_query, "raise",
                                         [NoChainResult EXCEPT !.error = message]))
    /\ pc' = "direct"
    /\ UNCHANGED <<args, vector_store, sparql_chain, enhanced_results,
                   escVars, qVars, synVars, chatVars, kbVars,
                   tableVars, reqVars>>

\* line 448: the chain is switched off or not available
ChainQASkipped ==
    /\ pc = "chain"
    /\ ~(args.use_sparql_chain /\ sparql_chain)
    /\ pc' = "direct"
    /\ UNCHANGED <<args, vector_store, sparql_chain, result, enhanced_results, calls,
                   escVars, qVars, synVars, chatVars, kbVars,
                   tableVars, reqVars>>

\* the entries of direct_sparql_results: one per query that returned rows
RECURSIVE DirectEntries(_, _, _)
\* a plausible slip: the try block around the loop instead of inside it,
\* so the first query that raises ends the batch
DirectEntriesStopAtRaise(sparql_queries, outcomes, i) ==
    LET kept == {k \in i..Len(sparql_queries) :
                    /\ outcomes[k] = "rows"
                    /\ \A m \in i..k : outcomes[m] # "raise"}
        nth(j) == CHOOSE k \in kept : Cardinality({m \in kept : m < k}) = j - 1
    IN  [j \in 1..Cardinality(kept) |->
            [query_type |-> sparql_queries[nth(j)].type,
             sparql_query |-> sparql_queries[nth(j)].query,
             results |-> RowsOf(sparql_queries[nth(j)].type),
             description |-> sparql_queries[nth(j)].description]]

DirectEntries(sparql_queries, outcomes, i) ==
    IF i > Len(sparql_queries) THEN <<>>
    ELSE (IF outcomes[i] = "rows"
          THEN <<[query_type |-> sparql_queries[i].type,
                  sparql_query |-> sparql_queries[i].query,
                  results |-> RowsOf(sparql_queries[i].type),
                  description |-> sparql_queries[i].description]>>
          ELSE <<>>)
         \o DirectEntries(sparql_queries, outcomes, i + 1)

\* a plausible slip: a query that raised is executed a second time
DirectSparqlRetrying ==
    /\ pc = "direct"
    /\ result.query_classification.primary_intent \in StructuredIntents
    /\ LET sparql_queries == _generate_targeted_sparql_queries(
                                 result.cleaned_query, result.query_classification,
                                 result.key_concepts)
       IN  \E outcomes \in [1..Len(sparql_queries) -> {"rows", "empty", "raise"}] :
              /\ result' = [result EXCEPT
                    !.direct_sparql_results = DirectEntries(sparql_queries, outcomes, 1),
                    !.processing_method = Append(@, "direct_sparql")]
              /\ calls' = calls \o Flatten([i \in 1..Len(sparql_queries) |->
                              LET c == Call("query_sparql", "direct", sparql_queries[i].query,
                                            outcomes[i],
                                            IF outcomes[i] = "rows"
                                            THEN RowsOf(sparql_queries[i].type) ELSE <<>>)
                              IN  IF outcomes[i] = "raise" THEN <<c, c>> ELSE <<c>>])
    /\ pc' = "enhance"
    /\ UNCHANGED <<args, vector_store, sparql_chain, enhanced_results,
                   escVars, qVars, synVars, chatVars, kbVars,
                   tableVars, reqVars>>

\* lines 465-489: synthesize, then execute every query; a query returns
\* rows, returns nothing, or raises
DirectSparql ==
    /\ pc = "direct"
    /\ result.query_classification.primary_intent \in StructuredIntents
    /\ LET sparql_queries == _generate_targeted_sparql_queries(
                                 result.cleaned_query, result.query_classification,
                                 result.key_concepts)
       IN  \E outcomes \in [1..Len(sparql_queries) -> {"rows", "empty", "raise"}] :
              /\ result' = [result EXCEPT
                    !.direct_sparql_results = DirectEntries(sparql_queries, outcomes, 1),
                    !.processing_method = Append(@, "direct_sparql")]
              /\ calls' = calls \o [i \in 1..Len(sparql_queries) |->
                              Call("query_sparql", "direct", sparql_queries[i].query,
                                   outcomes[i],
                                   IF outcomes[i] = "rows"
                                   THEN RowsOf(sparql_queries[i].type) ELSE <<>>)]
    /\ pc' = "enhance"
    /\ UNCHANGED <<args, vector_store, sparql_chain, enhanced_results,
                   escVars, qVars, synVars, chatVars, kbVars,
                   tableVars, reqVars>>

\* line 465: the intent has no structured queries
DirectSparqlSkipped ==
    /\ pc = "direct"
    /\ result.query_classification.primary_intent \notin StructuredIntents
    /\ pc' = "enhance"
    /\ UNCHANGED <<args, vector_store, sparql_chain, result, enhanced_results, calls,
                   escVars, qVars, synVars, chatVars, kbVars,
                   tableVars, reqVars>>

\* a plausible slip: the [:5] slice left out
ToEnhanceAll == result.vector_search_results

\* the hits step 4 enhances
ToEnhance == Take(result.vector_search_results, 5)

\* a plausible slip: the hit is enhanced in place (no entity.copy()), so the
\* entry of vector_search_results changes with it
EnhanceEntityInPlace ==
    /\ pc = "enhance"
    /\ Len(enhanced_results) < Len(ToEnhance)
    /\ LET i == Len(enhanced_results) + 1
           entity == ToEnhance[i]
       IN  \E o \in EnhanceOutcomes(entity) :
              LET r == _enhance_entity_with_relations(entity, o)
              IN  /\ calls' = calls \o r.calls
                  /\ enhanced_results' = Append(enhanced_results, r.value)
                  /\ result' = [result EXCEPT !.vector_search_results[i] = r.value]
                  /\ UNCHANGED pc
    /\ UNCHANGED <<args, vector_store, sparql_chain, escVars, qVars, synVars, chatVars, kbVars,
                   tableVars, reqVars>>

\* lines 495-497, 506-512: one iteration of the loop, the lookups ending as
\* in o; an exception that leaves _enhance_entity_with_relations reaches the
\* outer except clause, which returns the failure dictionary
EnhanceEntity ==
    /\ pc = "enhance"
    /\ Len(enhanced_results) < Len(ToEnhance)
    /\ LET entity == ToEnhance[Len(enhanced_results) + 1]
       IN  \E o \in EnhanceOutcomes(entity) :
              LET r == _enhance_entity_with_relations(entity, o)
              IN  /\ calls' = calls \o r.calls
                  /\ IF r.raised
                     THEN /\ result' = FailureResult(args.user_query, "'uri'")
                          /\ pc' = "done"
                          /\ UNCHANGED enhanced_results
                     ELSE /\ enhanced_results' = Append(enhanced_results, r.value)
                          /\ UNCHANGED <<pc, result>>
    /\ UNCHANGED <<args, vector_store, sparql_chain, escVars, qVars, synVars, chatVars, kbVars,
                   tableVars, reqVars>>

\* lines 492, 498: the loop is over (or there was no hit to enhance)
EnhanceDone ==
    /\ pc = "enhance"
    /\ Len(enhanced_results) = Len(ToEnhance)
    /\ result' = IF result.vector_search_results # <<>>
                 THEN [result EXCEPT !.keys = @ \cup {"enhanced_entities"},
                                     !.enhanced_entities = enhanced_results]
                 ELSE result
    /\ pc' = "context"
    /\ UNCHANGED <<args, vector_store, sparql_chain, enhanced_results, calls,
                   escVars, qVars, synVars, chatVars, kbVars,
                   tableVars, reqVars>>

\* a plausible slip: _generate_comprehensive_context without its own
\* try/except, so a failing schema summary reaches the outer except clause
GenerateContextUnprotected ==
    /\ pc = "context"
    /\ \E schema \in {"ok", "raise"} :
          /\ NeedsSchema(result) \/ schema = "ok"
          /\ result' = IF NeedsSchema(result) /\ schema = "raise"
                       THEN FailureResult(args.user_query, "schema")
                       ELSE [result EXCEPT
                                !.context = _generate_comprehensive_context(result, schema)]
          /\ calls' = IF NeedsSchema(result) /\ ~EntityKeyMissing(result)
                      THEN Append(calls, Call("get_schema_summary", "schema", "", schema, <<>>))
                      ELSE calls
    /\ pc' = "done"
    /\ UNCHANGED <<args, vector_store, sparql_chain, enhanced_results,
                   escVars, qVars, synVars, chatVars, kbVars,
                   tableVars, reqVars>>

\* lines 501-504: assemble the context and return the result
GenerateContext ==
    /\ pc = "context"
    /\ \E schema \in {"ok", "raise"} :
          /\ NeedsSchema(result) \/ schema = "ok"
          /\ result' = [result EXCEPT
                            !.context = _generate_comprehensive_context(result, schema)]
          /\ calls' = IF NeedsSchema(result) /\ ~EntityKeyMissing(result)
                      THEN Append(calls, Call("get_schema_summary", "schema", "", schema, <<>>))
                      ELSE calls
    /\ pc' = "done"
    /\ UNCHANGED <<args, vector_store, sparql_chain, enhanced_results,
                   escVars, qVars, synVars, chatVars, kbVars,
                   tableVars, reqVars>>

Next ==
    \/ PreprocessRaises
    \/ Prepare
    \/ VectorSearchReturns
    \/ VectorSearchRaises
    \/ VectorSearchSkipped
    \/ ChainQAReturns
    \/ ChainQARaises
    \/ ChainQASkipped
    \/ DirectSparql
    \/ DirectSparqlSkipped
    \/ EnhanceEntity
    \/ EnhanceDone
    \/ GenerateContext

Spec == Init /\ [][Next]_vars

-----------------------------------------------------------------------------
(* Specification SpecInterleaved: two calls of process_query on one        *)
(* processor, A and B, their steps in any order. When call A has returned  *)
(* it is made once more, alone on a processor as __init__ builds it, the   *)
(* collaborators answering it as they did before.                          *)

\* the arguments of the two calls
InterleavedArgs ==
    {[user_query |-> "list cats", is_str |-> TRUE, py_type |-> "str", top_k |-> 15,
      use_sparql_chain |-> FALSE, include_vector_search |-> FALSE],
     [user_query |-> "the", is_str |-> TRUE, py_type |-> "str", top_k |-> 15,
      use_sparql_chain |-> TRUE, include_vector_search |-> FALSE],
     [user_query |-> "What is a Person?", is_str |-> TRUE, py_type |-> "str", top_k |-> 15,
      use_sparql_chain |-> FALSE, include_vector_search |-> TRUE],
     [user_query |-> "", is_str |-> FALSE, py_type |-> "NoneType", top_k |-> 15,
      use_sparql_chain |-> TRUE, include_vector_search |-> TRUE]}

\* lines 385-400: a call that has not made a step; everything but the
\* arguments is local to the call and starts empty
FreshRequest(a) ==
    [pc |-> "start", args |-> a, result |-> NoResult, enhanced_results |-> <<>>,
     calls |-> <<>>]

\* the local state of call r
Request(r) ==
    IF running = r
    THEN [pc |-> pc, args |-> args, result |-> result,
          enhanced_results |-> enhanced_results, calls |-> calls]
    ELSE suspended

InterleavedInit ==
    /\ TablesBuilt
    /\ phase = "together" /\ running = "A" /\ mixed = FALSE
    /\ interleaved = NoRequest
    /\ \E a \in InterleavedArgs, b \in InterleavedArgs :
          /\ args = a
          /\ suspended = FreshRequest(b)
    /\ pc = "start"
    /\ vector_store = TRUE
    /\ sparql_chain = TRUE
    /\ result = NoResult
    /\ enhanced_results = <<>>
    /\ calls = <<>>
    /\ EscIdle /\ QIdle /\ SynIdle /\ ChatIdle /\ KbIdle

\* the scheduler passes from the running call to the other one; the handles
\* and the tables belong to the processor and stay where they are
Switch ==
    /\ phase = "together"
    /\ suspended.pc # "done"
    /\ pc' = suspended.pc
    /\ args' = suspended.args
    /\ result' = suspended.result
    /\ enhanced_results' = suspended.enhanced_results
    /\ calls' = suspended.calls
    /\ suspended' = Request(running)
    /\ running' = IF running = "A" THEN "B" ELSE "A"
    /\ UNCHANGED <<vector_store, sparql_chain, phase, interleaved, mixed,
                   escVars, qVars, synVars, chatVars, kbVars, tableVars>>

\* call A has returned: what it returned and what the collaborators answered
\* is kept for comparison, and the call is made again with no other call, on
\* a processor as __init__ builds it (lines 28-110)
RunAlone ==
    /\ phase = "together"
    /\ running = "A"
    /\ pc = "done"
    /\ interleaved' = Request("A")
    /\ mixed' = (suspended.pc \notin {"start", "done"})
    /\ suspended' = NoRequest
    /\ phase' = "alone"
    /\ pc' = "start"
    /\ result' = NoResult
    /\ enhanced_results' = <<>>
    /\ calls' = <<>>
    /\ vector_store' = TRUE
    /\ sparql_chain' = TRUE
    /\ query_patterns' = QueryPatterns
    /\ intent_keywords' = IntentKeywords
    /\ UNCHANGED <<args, running, escVars, qVars, synVars, chatVars, kbVars>>

SameRequestTo(c, d) == c.op = d.op /\ c.purpose = d.purpose /\ c.arg = d.arg

\* the collaborators (and the set order of the Python process) answer the
\* call made alone as they answered call A, wherever it asks the same
Replayed ==
    phase = "alone" =>
        /\ \A i \in DOMAIN calls :
              (i <= Len(interleaved.calls) /\ SameRequestTo(calls[i], interleaved.calls[i])) =>
                  calls[i] = interleaved.calls[i]
        /\ ("key_concepts" \in result.keys /\ "key_concepts" \in interleaved.result.keys) =>
              result.key_concepts = interleaved.result.key_concepts

InterleavedNext ==
    \/ Switch
    \/ RunAlone
    \/ PreprocessRaises /\ Replayed'
    \/ Prepare /\ Replayed'
    \/ VectorSearchReturns /\ Replayed'
    \/ VectorSearchRaises /\ Replayed'
    \/ VectorSearchSkipped /\ Replayed'
    \/ ChainQAReturns /\ Replayed'
    \/ ChainQARaises /\ Replayed'
    \/ ChainQASkipped /\ Replayed'
    \/ DirectSparql /\ Replayed'
    \/ DirectSparqlSkipped /\ Replayed'
    \/ EnhanceEntity /\ Replayed'
    \/ EnhanceDone /\ Replayed'
    \/ GenerateContext /\ Replayed'

SpecInterleaved == InterleavedInit /\ [][InterleavedNext]_vars

-----------------------------------------------------------------------------
(* chat (src/chatbot.py): process_query, then the answer *)

\* the text the LLM answers with when its call returns
LLMAnswer == <<"Cats are small animals.">>

\* the messages given to chat
ChatMessages == {"list cats", "What is a Person?", "the"}

\* chatbot.py lines 435-440
ChatNotInitializedResult(user_message) ==
    [NoChatResult EXCEPT
        !.keys = {"user_message", "response", "success", "error"},
        !.user_message = user_message,
        !.response = <<"Sorry, the chatbot is not properly initialized. Please check the system status.">>,
        !.error = "Query processor not initialized"]

\* chatbot.py lines 450-455
ChatFailureResult(user_message, query_result) ==
    [NoChatResult EXCEPT
        !.keys = {"user_message", "response", "success", "error"},
        !.user_message = user_message,
        !.response = <<"I encountered an error processing your question. Please try rephrasing it.">>,
        !.error = IF "error" \in query_result.keys THEN query_result.error ELSE "Unknown error"]

\* chatbot.py lines 469-486
ChatSuccessResult(user_message, response, query_result, include_context) ==
    [NoChatResult EXCEPT
        !.keys = {"user_message", "response", "query_classification", "key_concepts",
                  "processing_methods", "num_relevant_entities", "success"}
                 \cup (IF include_context
                       THEN {"vector_search_results", "sparql_chain_result",
                             "direct_sparql_results", "context_used"}
                       ELSE {}),
        !.user_message = user_message,
        !.response = response,
        !.query_classification = query_result.query_classification,
        !.key_concepts = query_result.key_concepts,
        !.processing_methods = query_result.processing_method,
        !.num_relevant_entities = Len(query_result.vector_search_results),
        !.success = TRUE,
        !.vector_search_results =
            IF include_context THEN Take(query_result.vector_search_results, 5) ELSE <<>>,
        !.sparql_chain_result =
            IF include_context THEN query_result.sparql_chain_result ELSE NoChainResult,
        !.direct_sparql_results =
            IF include_context THEN query_result.direct_sparql_results ELSE <<>>,
        !.context_used = IF include_context THEN query_result.context ELSE <<>>]

\* chatbot.py lines 573-576: the lines of one entity of the fallback answer
FallbackEntityLines(i, entity) ==
    <<Digit(i) \o ". " \o entity.local_name \o " (" \o entity.type \o ")">>
    \o (IF entity.comments # <<>> THEN <<"   " \o entity.comments[1]>> ELSE <<>>)

\* chatbot.py lines 567-578
FallbackEntities(query_result) ==
    LET entities == Take(query_result.vector_search_results, 3)
    IN  <<"I found " \o Digit(Len(entities)) \o " relevant entities in the knowledge graph:">>
        \o Flatten([i \in 1..Len(entities) |-> FallbackEntityLines(i, entities[i])])

FallbackSparqlMessage ==
    <<"I found information using SPARQL queries. Please check the detailed results.">>
FallbackNotFound ==
    <<"I couldn't find specific information about your query in the knowledge graph.">>
FallbackError == <<"I encountered an error processing your query.">>

\* a key read with [] is missing from one of the entities of the fallback answer
FallbackKeyMissing(query_result) ==
    \E i \in 1..Len(Take(query_result.vector_search_results, 3)) :
        ~({"local_name", "type"} \subseteq query_result.vector_search_results[i].keys)

\* chatbot.py lines 559-588; the answer is kept as its list of lines. A
\* truthy chain dictionary with no error and no 'answer' key makes line 564
\* raise, and the except clause answers.
_generate_fallback_response(query_result) ==
    LET r == query_result.sparql_chain_result
    IN  IF ChainResultTruthy(r) /\ r.error = ""
        THEN (IF "answer" \in r.keys THEN <<r.answer>> ELSE FallbackError)
        ELSE IF query_result.vector_search_results # <<>>
        THEN (IF FallbackKeyMissing(query_result) THEN FallbackError
              ELSE FallbackEntities(query_result))
        ELSE IF query_result.direct_sparql_results # <<>>
        THEN FallbackSparqlMessage
        ELSE FallbackNotFound

\* chatbot.py lines 500-557: what the LLM is invoked with (the fixed text of
\* the prompt left out), and the answer: the LLM's, or the fallback when
\* the invocation raises
LLMPrompt(context, user_message, query_result) ==
    [intent |-> query_result.query_classification.primary_intent,
     key_concepts |-> Take(query_result.key_concepts, 3),
     context |-> context,
     user_message |-> user_message]

_generate_llm_response(query_result, outcome) ==
    IF outcome = "raise" THEN _generate_fallback_response(query_result) ELSE LLMAnswer

\* the chatbot after _initialize_components (lines 186-260): the chain is set
\* up only with an LLM (line 234); query_processor_ready is FALSE when the
\* initialization raised before step 6
ChatInit ==
    /\ chatPc = "start"
    /\ chatArgs \in
          [user_message : ChatMessages, is_str : {TRUE}, py_type : {"str"},
           include_context : BOOLEAN,
           use_sparql_chain : BOOLEAN, max_entities : {10}]
          \cup [user_message : {""}, is_str : {FALSE}, py_type : NonStringTypes,
                include_context : BOOLEAN,
                use_sparql_chain : BOOLEAN, max_entities : {10}]
    /\ llm \in BOOLEAN
    /\ query_processor_ready \in BOOLEAN
    /\ llmCalls = <<>>
    /\ chatResult = NoChatResult
    /\ pc = "idle"
    /\ args = [user_query |-> "", is_str |-> TRUE, py_type |-> "str", top_k |-> 15,
               use_sparql_chain |-> TRUE, include_vector_search |-> TRUE]
    /\ vector_store \in BOOLEAN
    /\ sparql_chain \in {c \in BOOLEAN : c => llm}
    /\ result = NoResult
    /\ enhanced_results = <<>>
    /\ calls = <<>>
    /\ EscIdle /\ QIdle /\ SynIdle /\ KbIdle
    /\ TablesBuilt /\ OneRequest

\* chatbot.py lines 434-440
ChatNotInitialized ==
    /\ chatPc = "start"
    /\ ~query_processor_ready
    /\ chatResult' = ChatNotInitializedResult(chatArgs.user_message)
    /\ chatPc' = "done"
    /\ UNCHANGED <<chatArgs, llm, query_processor_ready, llmCalls,
                   escVars, qVars, synVars, pqVars, kbVars,
                   tableVars, reqVars>>

\* chatbot.py lines 443-447: process_query is called with the message,
\* top_k = max_entities and use_sparql_chain; include_vector_search keeps
\* its default
ChatProcessQuery ==
    /\ chatPc = "start"
    /\ query_processor_ready
    /\ pc = "idle"
    /\ args' = [user_query |-> chatArgs.user_message, is_str |-> chatArgs.is_str,
                py_type |-> chatArgs.py_type,
                top_k |-> chatArgs.max_entities,
                use_sparql_chain |-> chatArgs.use_sparql_chain,
                include_vector_search |-> TRUE]
    /\ pc' = "start"
    /\ chatPc' = "processing"
    /\ UNCHANGED <<vector_store, sparql_chain, result, enhanced_results, calls,
                   chatArgs, llm, query_processor_ready, llmCalls, chatResult,
                   escVars, qVars, synVars, kbVars,
                   tableVars, reqVars>>

\* chatbot.py lines 449-455: process_query reported a failure
ChatQueryFailed ==
    /\ chatPc = "processing"
    /\ pc = "done"
    /\ ~result.success
    /\ chatResult' = ChatFailureResult(chatArgs.user_message, result)
    /\ chatPc' = "done"
    /\ UNCHANGED <<chatArgs, llm, query_processor_ready, llmCalls,
                   escVars, qVars, synVars, pqVars, kbVars,
                   tableVars, reqVars>>

\* chatbot.py lines 458-463, 469-489: the LLM is invoked and answers or raises
ChatAnswerLLM ==
    /\ chatPc = "processing"
    /\ pc = "done"
    /\ result.success
    /\ llm
    /\ \E outcome \in {"answer", "raise"} :
          /\ llmCalls' = Append(llmCalls,
                                [prompt |-> LLMPrompt(result.context, chatArgs.user_message,
                                                      result),
                                 outcome |-> outcome])
          /\ chatResult' = ChatSuccessResult(chatArgs.user_message,
                                             _generate_llm_response(result, outcome),
                                             result, chatArgs.include_context)
    /\ chatPc' = "done"
    /\ UNCHANGED <<chatArgs, llm, query_processor_ready,
                   escVars, qVars, synVars, pqVars, kbVars,
                   tableVars, reqVars>>

\* chatbot.py lines 464-466, 469-489: no LLM, the fallback answers
ChatAnswerFallback ==
    /\ chatPc = "processing"
    /\ pc = "done"
    /\ result.success
    /\ ~llm
    /\ chatResult' = ChatSuccessResult(chatArgs.user_message,
                                       _generate_fallback_response(result),
                                       result, chatArgs.include_context)
    /\ chatPc' = "done"
    /\ UNCHANGED <<chatArgs, llm, query_processor_ready, llmCalls,
                   escVars, qVars, synVars, pqVars, kbVars,
                   tableVars, reqVars>>

ChatNext ==
    \/ ChatNotInitialized
    \/ ChatProcessQuery
    \/ PreprocessRaises
    \/ Prepare
    \/ VectorSearchReturns
    \/ VectorSearchRaises
    \/ VectorSearchSkipped
    \/ ChainQAReturns
    \/ ChainQARaises
    \/ ChainQASkipped
    \/ DirectSparql
    \/ DirectSparqlSkipped
    \/ EnhanceEntity
    \/ EnhanceDone
    \/ GenerateContext
    \/ ChatQueryFailed
    \/ ChatAnswerLLM
    \/ ChatAnswerFallback

SpecChat == ChatInit /\ [][ChatNext]_vars

-----------------------------------------------------------------------------
(* initialize_knowledge_base and refresh_knowledge_base (src/chatbot.py) *)

\* the entity lists the graph can hold after load_ontology
KbOntologies == {<<>>, <<"ex:Cat">>, <<"ex:Cat", "ex:Dog">>}

\* the contents the index can have before the first operation
KbIndexes == {{}, {"ex:Old"}, {"ex:Cat", "ex:Old"}}

SetOf(seq) == {seq[i] : i \in DOMAIN seq}

\* how the collaborator calls of one operation end, for those that are made.
\* The store is no part of chatbot.py, so what a failing call leaves behind
\* is open: cleared says whether a clear_index that raised had emptied the
\* index, written names the entities an add_entities that returned False or
\* raised had added before (none, some batches or entities, or all of them)
\* (a field that cannot matter has one value: cleared and written without the
\* failure they describe, add and final_stats behind a call that ended the
\* operation)
KbOutcomes ==
    {o \in [stats : {"ok", "raise"}, clear : {"ok", "raise"}, cleared : BOOLEAN,
            entities : {"ok", "raise"}, add : {"true", "false", "raise"},
            written : SUBSET (UNION {SetOf(graph) : graph \in KbOntologies}),
            final_stats : {"ok", "raise"}] :
        /\ o.clear = "ok" => ~o.cleared
        /\ o.add = "true" => o.written = {}
        /\ o.add # "true" => o.final_stats = "ok"
        /\ o.entities = "raise" => o.add = "true" /\ o.final_stats = "ok"}

KbCall(op, outcome) == [op |-> op, outcome |-> outcome]

NoKbResult ==
    [keys |-> {}, success |-> FALSE, message |-> "", entities_indexed |-> 0,
     force_rebuild |-> FALSE, entities_reindexed |-> 0, error |-> ""]

\* chatbot.py lines 351-356
KbAlreadyInitialized(total) ==
    [NoKbResult EXCEPT
        !.keys = {"success", "message", "entities_indexed", "force_rebuild"},
        !.success = TRUE,
        !.message = "Knowledge base already initialized with " \o Digit(total) \o " entities",
        !.entities_indexed = total]

\* chatbot.py lines 369-373, 397-401, 405-409
KbFailure(message) ==
    [NoKbResult EXCEPT
        !.keys = {"success", "message", "entities_indexed"},
        !.message = message]

\* chatbot.py lines 387-394
KbInitialized(total, force_rebuild) ==
    [NoKbResult EXCEPT
        !.keys = {"success", "message", "entities_indexed", "entity_types",
                  "index_size_mb", "force_rebuild"},
        !.success = TRUE,
        !.message = "Knowledge base initialized successfully",
        !.entities_indexed = total,
        !.force_rebuild = force_rebuild]

KbStep(index, kbcalls, res) == [index |-> index, calls |-> kbcalls, result |-> res]

\* chatbot.py lines 364-401: extract the entities and index them. An
\* add_entities that returns False or raises leaves in the index what it had
\* written until then; chatbot.py makes no call after it
KbExtractAndIndex(index, graph, kbcalls, force_rebuild, o) ==
    LET c1 == Append(kbcalls, KbCall("get_all_entities", o.entities))
        c2 == Append(c1, KbCall("add_entities", o.add))
        c3 == Append(c2, KbCall("get_index_stats", o.final_stats))
        added == index \cup SetOf(graph)
        partly == index \cup (o.written \cap SetOf(graph))
    IN  IF o.entities = "raise"
        THEN KbStep(index, c1, KbFailure("Error initializing knowledge base: entities"))
        ELSE IF graph = <<>>
        THEN KbStep(index, c1, KbFailure("No entities found in RDF graph"))
        ELSE IF o.add = "raise"
        THEN KbStep(partly, c2, KbFailure("Error initializing knowledge base: add"))
        ELSE IF o.add = "false"
        THEN KbStep(partly, c2, KbFailure("Failed to index entities in vector store"))
        ELSE IF o.final_stats = "raise"
        THEN KbStep(added, c3, KbFailure("Error initializing knowledge base: stats"))
        ELSE KbStep(added, c3, KbInitialized(Cardinality(added), force_rebuild))

\* a plausible slip that would keep the old content: the entities are
\* extracted first and the index is cleared only when there are some
InitializeKeepingOnFailure(force_rebuild, store, index, graph, o) ==
    IF ~store
    THEN KbStep(index, <<>>,
                KbFailure("Error initializing knowledge base: "
                          \o NoAttributeError("NoneType", IF force_rebuild THEN "clear_index"
                                                          ELSE "get_index_stats")))
    ELSE IF ~force_rebuild
    THEN (IF o.stats = "raise"
          THEN KbStep(index, <<KbCall("get_index_stats", "raise")>>,
                      KbFailure("Error initializing knowledge base: stats"))
          ELSE IF Cardinality(index) > 0
          THEN KbStep(index, <<KbCall("get_index_stats", "ok")>>,
                      KbAlreadyInitialized(Cardinality(index)))
          ELSE KbExtractAndIndex(index, graph, <<KbCall("get_index_stats", "ok")>>,
                                 force_rebuild, o))
    ELSE IF o.entities = "raise" \/ graph = <<>>
    THEN KbExtractAndIndex(index, graph, <<>>, force_rebuild, o)
    ELSE IF o.clear = "raise"
    THEN KbStep(IF o.cleared THEN {} ELSE index,
                <<KbCall("get_all_entities", "ok"), KbCall("clear_index", "raise")>>,
                KbFailure("Error initializing knowledge base: clear"))
    ELSE KbExtractAndIndex({}, graph, <<KbCall("clear_index", "ok")>>, force_rebuild, o)

\* chatbot.py lines 334-411. store: self.vector_store is set; index: what the
\* vector index holds; graph: what get_all_entities returns. The value is
\* the index afterwards, the collaborator calls made, and the dictionary
\* returned.
initialize_knowledge_base(force_rebuild, store, index, graph, o) ==
    IF ~store
    THEN KbStep(index, <<>>,
                KbFailure("Error initializing knowledge base: "
                          \o NoAttributeError("NoneType", IF force_rebuild THEN "clear_index"
                                                          ELSE "get_index_stats")))
    ELSE IF ~force_rebuild
    THEN (IF o.stats = "raise"
          THEN KbStep(index, <<KbCall("get_index_stats", "raise")>>,
                      KbFailure("Error initializing knowledge base: stats"))
          ELSE IF Cardinality(index) > 0
          THEN KbStep(index, <<KbCall("get_index_stats", "ok")>>,
                      KbAlreadyInitialized(Cardinality(index)))
          ELSE KbExtractAndIndex(index, graph, <<KbCall("get_index_stats", "ok")>>,
                                 force_rebuild, o))
    ELSE IF o.clear = "raise"
    THEN KbStep(IF o.cleared THEN {} ELSE index, <<KbCall("clear_index", "raise")>>,
                KbFailure("Error initializing knowledge base: clear"))
    ELSE KbExtractAndIndex({}, graph, <<KbCall("clear_index", "ok")>>, force_rebuild, o)

\* chatbot.py lines 674-685: the dictionary refresh_knowledge_base makes of
\* the one initialize_knowledge_base returned
KbRefreshResult(res) ==
    IF res.success
    THEN [NoKbResult EXCEPT
            !.keys = {"success", "message", "entities_reindexed"},
            !.success = TRUE,
            !.message = "Knowledge base refreshed successfully",
            !.entities_reindexed = res.entities_indexed]
    ELSE [NoKbResult EXCEPT
            !.keys = {"success", "message", "error"},
            !.message = "Knowledge base refresh failed",
            !.error = res.message]

\* chatbot.py lines 687-692
KbRefreshError ==
    [NoKbResult EXCEPT
        !.keys = {"success", "message"},
        !.message = "Error refreshing knowledge base: load"]

KbEntry(op, force_rebuild, before, graph, step) ==
    [op |-> op, force_rebuild |-> force_rebuild, before |-> before, graph |-> graph,
     after |-> step.index, calls |-> step.calls, result |-> step.result]

KbInit ==
    /\ kbIndex \in KbIndexes
    /\ kbGraph \in KbOntologies
    /\ kbLog = <<>>
    /\ vector_store \in BOOLEAN
    /\ pc = "idle"
    /\ args = [user_query |-> "", is_str |-> TRUE, py_type |-> "str", top_k |-> 15,
               use_sparql_chain |-> TRUE, include_vector_search |-> TRUE]
    /\ sparql_chain = FALSE
    /\ result = NoResult
    /\ enhanced_results = <<>>
    /\ calls = <<>>
    /\ EscIdle /\ QIdle /\ SynIdle /\ ChatIdle
    /\ TablesBuilt /\ OneRequest

\* chatbot.py lines 334-411: one call of initialize_knowledge_base
InitializeKnowledgeBase ==
    /\ Len(kbLog) < MaxKbOps
    /\ \E force_rebuild \in BOOLEAN, o \in KbOutcomes :
          LET step == initialize_knowledge_base(force_rebuild, vector_store, kbIndex,
                                                kbGraph, o)
          IN  /\ kbIndex' = step.index
              /\ kbLog' = Append(kbLog, KbEntry("initialize", force_rebuild, kbIndex, kbGraph, step))
    /\ UNCHANGED <<kbGraph, escVars, qVars, synVars, pqVars, chatVars,
                   tableVars, reqVars>>

\* chatbot.py lines 654-692: one call of refresh_knowledge_base; load_ontology
\* raises, or loads one of the ontologies
RefreshKnowledgeBase ==
    /\ Len(kbLog) < MaxKbOps
    /\ \E load \in {"ok", "raise"}, graph \in KbOntologies, o \in KbOutcomes :
          IF load = "raise"
          THEN /\ kbLog' = Append(kbLog,
                      KbEntry("refresh", TRUE, kbIndex, kbGraph,
                              KbStep(kbIndex, <<KbCall("load_ontology", "raise")>>,
                                     KbRefreshError)))
               /\ UNCHANGED <<kbIndex, kbGraph>>
          ELSE LET step == initialize_knowledge_base(TRUE, vector_store, kbIndex, graph, o)
               IN  /\ kbGraph' = graph
                   /\ kbIndex' = step.index
                   /\ kbLog' = Append(kbLog,
                          KbEntry("refresh", TRUE, kbIndex, graph,
                                  KbStep(step.index,
                                         <<KbCall("load_ontology", "ok")>> \o step.calls,
                                         KbRefreshResult(step.result))))
    /\ UNCHANGED <<escVars, qVars, synVars, pqVars, chatVars,
                   tableVars, reqVars>>

KbNext == InitializeKnowledgeBase \/ RefreshKnowledgeBase

SpecKB == KbInit /\ [][KbNext]_vars

-----------------------------------------------------------------------------
(* Claims about escape *)

\* the two-character sequences the replacements of escape introduce
IntroducedEscapes == {"\\\\", "\\\"", "\\'", "\\n", "\\r", "\\t"}

\* s, read left to right, consists of safe characters and introduced escape
\* sequences only: no quote or backslash stands outside an escape sequence
RECURSIVE EscapedForm(_)
EscapedForm(s) ==
    IF s = "" THEN TRUE
    ELSE IF Head(s) = "\\"
         THEN Len(s) >= 2 /\ SubSeq(s, 1, 2) \in IntroducedEscapes
              /\ EscapedForm(SubSeq(s, 3, Len(s)))
         ELSE /\ IsWordCh(Head(s)) \/ IsSpaceCh(Head(s)) \/ Head(s) \in {"-", "_", "."}
              /\ EscapedForm(Tail(s))

HasSpecial(s) == CharsOf(s) \cap {"\\", "\"", "'"} # {}

\* C5: escape applied once leaves no unescaped double quote, single quote or
\* backslash, and every output character is a word character, whitespace,
\* '-', '_' or '.', or part of an escape sequence escape introduced.
C5_EscapeOutputSafe ==
    escPc \in {"once", "twice"} => EscapedForm(escOnce)

C5_Witness ==
    /\ escPc = "once"
    /\ {"\\", "\"", "$"} \subseteq CharsOf(escText)
    /\ escOnce = ""

\* C6 as stated: for an input holding a backslash or a quote, escaping a
\* second time changes the string again.
C6_NotIdempotentAsClaimed ==
    (escPc = "twice" /\ HasSpecial(escText)) => escTwice # escOnce

\* C6 amended: escape is idempotent, its final strip removes every backslash
\* and quote, so a second application returns the first result unchanged.
C6_EscapeIdempotent ==
    escPc = "twice" => escTwice = escOnce

C6_Witness ==
    /\ escPc = "twice"
    /\ {"\\", "'"} \subseteq CharsOf(escText)
    /\ "a" \in CharsOf(escOnce)
    /\ escTwice = escOnce

-----------------------------------------------------------------------------
(* Claims about classify *)

Classified == qPc \in {"classified", "extracted"}

AllScoresZero(c) == \A intent \in IntentSet : c.all_scores2[intent] = 0

\* C7: the primary intent's score is >= every other intent's score; the
\* primary intent is 'general' exactly when all eight scores are 0, and then
\* the confidence is 0.
C7_PrimaryIsMaximal ==
    Classified =>
        /\ qClass.primary_intent \in IntentSet \cup {"general"}
        /\ qClass.primary_intent # "general" =>
              \A intent \in IntentSet :
                  qClass.all_scores2[qClass.primary_intent] >= qClass.all_scores2[intent]
        /\ qClass.primary_intent = "general" <=> AllScoresZero(qClass)
        /\ qClass.primary_intent = "general" => qClass.confidence2 = 0

C7_Witness ==
    /\ qPc = "classified"
    /\ qClass.primary_intent = "listing"
    /\ qClass.all_scores2["listing"] = qClass.all_scores2["comparison"]
    /\ qClass.all_scores2["definition"] > 0

\* C8: the secondary intent is absent, or an intent other than the primary
\* with a score > 0 that is the highest among the intents other than the
\* primary; it is absent whenever the primary intent is 'general'.
C8_SecondaryIsNextHighest ==
    Classified =>
        /\ qClass.secondary_intent # None =>
              /\ qClass.secondary_intent \in IntentSet
              /\ qClass.secondary_intent # qClass.primary_intent
              /\ qClass.all_scores2[qClass.secondary_intent] > 0
              /\ \A intent \in IntentSet \ {qClass.primary_intent} :
                    qClass.all_scores2[intent] <= qClass.all_scores2[qClass.secondary_intent]
        /\ qClass.primary_intent = "general" => qClass.secondary_intent = None

C8_Witness ==
    /\ qPc = "classified"
    /\ qClass.primary_intent = "comparison"
    /\ qClass.secondary_intent = "definition"
    /\ qClass.all_scores2["listing"] = qClass.all_scores2["definition"]

-----------------------------------------------------------------------------
(* Claims about stop-word queries *)

\* the query has words, and every word of it is a stop word
StopWordsOnly(query) ==
    LET words == FindWords(Lower(query), 1)
    IN  Len(words) > 0 /\ \A i \in 1..Len(words) : words[i] \in stop_words

HasQuotedSpan(query) ==
    FindQuoted(query, 1, "\"") # <<>> \/ FindQuoted(query, 1, "'") # <<>>

\* some intent keyword occurs in the query or some intent pattern matches it
HitsKeywordOrPattern(query) ==
    LET query_lower == Strip(Lower(query))
    IN  \E intent \in IntentSet :
            \/ \E kw \in intent_keywords[intent] : Contains(query_lower, kw)
            \/ \E k \in 1..Len(query_patterns[intent]) :
                  re_search(query_patterns[intent][k], query_lower)

\* C9 as stated: a query of stop words only yields no concept and is
\* classified 'general' with confidence 0.
C9_StopWordsGiveNothing ==
    (qPc = "extracted" /\ StopWordsOnly(qText)) =>
        /\ qConcepts = <<>>
        /\ qClass.primary_intent = "general"
        /\ qClass.confidence2 = 0

\* C9 amended: a query of stop words only yields no concept unless it holds
\* a quoted span, and is classified 'general' with confidence 0 exactly when
\* it holds no intent keyword and matches no intent pattern (the stop words
\* what, define, explain, describe, show, find, list, have are keywords).
C9_StopWordsAmended ==
    (qPc = "extracted" /\ StopWordsOnly(qText)) =>
        /\ ~HasQuotedSpan(qText) => qConcepts = <<>>
        /\ (qClass.primary_intent = "general" /\ qClass.confidence2 = 0)
              <=> ~HitsKeywordOrPattern(qText)

C9_Witness ==
    /\ qPc = "extracted"
    /\ StopWordsOnly(qText)
    /\ Len(FindWords(Lower(qText), 1)) >= 2
    /\ ~HasQuotedSpan(qText)
    /\ ~HitsKeywordOrPattern(qText)
    /\ qConcepts = <<>>
    /\ qClass.primary_intent = "general"

-----------------------------------------------------------------------------
(* Claims about the synthesizer *)

Min(a, b) == IF a < b THEN a ELSE b

\* C10: for n concepts the synthesizer emits 2*min(n,3) specs for listing
\* (list-classes then list-properties per concept, in concept order),
\* 2*min(n,2) for hierarchical (subclasses then superclasses per concept),
\* one relationships spec over the first two concepts iff n >= 2, and
\* min(n,2) count-classes specs for count.
C10_SpecCounts ==
    synPc = "out" =>
        LET n == Len(synConcepts)
            described(i, type, description) ==
                synQueries[i].type = type /\ synQueries[i].description = description
        IN  /\ synIntent = "listing" =>
                /\ Len(synQueries) = 2 * Min(n, 3)
                /\ \A k \in 1..Min(n, 3) :
                      /\ described(2 * k - 1, "list_classes",
                                   Description_list_classes(synConcepts[k]))
                      /\ described(2 * k, "list_properties",
                                   Description_list_properties(synConcepts[k]))
            /\ synIntent = "hierarchical" =>
                /\ Len(synQueries) = 2 * Min(n, 2)
                /\ \A k \in 1..Min(n, 2) :
                      /\ described(2 * k - 1, "subclasses",
                                   Description_subclasses(synConcepts[k]))
                      /\ described(2 * k, "superclasses",
                                   Description_superclasses(synConcepts[k]))
            /\ synIntent = "relationship" =>
                /\ Len(synQueries) = (IF n >= 2 THEN 1 ELSE 0)
                /\ n >= 2 => described(1, "relationships",
                                 Description_relationships(synConcepts[1], synConcepts[2]))
            /\ synIntent = "count" =>
                /\ Len(synQueries) = Min(n, 2)
                /\ \A k \in 1..Min(n, 2) :
                      described(k, "count_classes", Description_count_classes(synConcepts[k]))

C10_Witness ==
    /\ synPc = "out"
    /\ synIntent = "listing"
    /\ Len(synConcepts) = 4
    /\ synConcepts[1] # synConcepts[2]
    /\ Len(synQueries) = 6

-----------------------------------------------------------------------------
(* Claims about process_query *)

CallsTo(op, purpose) == SelectSeq(calls, LAMBDA c : c.op = op /\ c.purpose = purpose)

SearchCalls == CallsTo("search_similar", "vector")
ChainCalls == CallsTo("query_with_langchain", "chain")
DirectCalls == CallsTo("query_sparql", "direct")
SchemaCalls == CallsTo("get_schema_summary", "schema")

Listed(method) == method \in Range(result.processing_method)

VectorRaised == \E i \in DOMAIN SearchCalls : SearchCalls[i].outcome = "raise"
ChainRaised == \E i \in DOMAIN ChainCalls : ChainCalls[i].outcome = "raise"
StructuredIntent ==
    /\ "query_classification" \in result.keys
    /\ result.query_classification.primary_intent \in StructuredIntents

\* the hits a successful search returned are the result's hits
VectorKept ==
    \A i \in DOMAIN SearchCalls :
        SearchCalls[i].outcome = "ok" =>
            /\ "vector_search_results" \in result.keys
            /\ result.vector_search_results = SearchCalls[i].returned

\* the dictionary the chain returned is the result's chain result
ChainKept ==
    \A i \in DOMAIN ChainCalls :
        (ChainCalls[i].outcome # "raise" /\ ~ChainCalls[i].returned.is_none) =>
            /\ "sparql_chain_result" \in result.keys
            /\ result.sparql_chain_result = ChainCalls[i].returned

\* every structured query that returned rows has its entry, in order
DirectKept ==
    LET returned == SelectSeq(DirectCalls, LAMBDA c : c.outcome = "rows")
    IN  returned # <<>> =>
            /\ "direct_sparql_results" \in result.keys
            /\ Len(result.direct_sparql_results) = Len(returned)
            /\ \A i \in DOMAIN returned :
                  /\ result.direct_sparql_results[i].sparql_query = returned[i].arg
                  /\ result.direct_sparql_results[i].results = returned[i].returned

\* C1: when the semantic search raises, the call still invokes chain QA
\* exactly when it is enabled and available, and every synthesized
\* structured query exactly when the primary intent is listing,
\* hierarchical, count or relationship; it returns success = true with
\* what those sources returned; 'vector_search' is not listed, 'sparql_chain'
\* is listed when the chain call returned, 'direct_sparql' is listed when
\* the intent is structured.
C1_VectorFailureIsolated ==
    (pc = "done" /\ VectorRaised) =>
        /\ result.success
        /\ ~Listed("vector_search")
        /\ (ChainCalls # <<>>) <=> (args.use_sparql_chain /\ sparql_chain)
        /\ (ChainCalls # <<>> /\ ~ChainRaised) => Listed("sparql_chain")
        /\ ChainKept
        /\ StructuredIntent => Listed("direct_sparql")
        /\ Len(DirectCalls) =
              IF StructuredIntent
              THEN Len(_generate_targeted_sparql_queries(
                          result.cleaned_query, result.query_classification,
                          result.key_concepts))
              ELSE 0
        /\ DirectKept

C1_Witness ==
    /\ pc = "done"
    /\ VectorRaised
    /\ ChainCalls # <<>> /\ ChainCalls[1].outcome = "answer"
    /\ result.sparql_chain_result.answer = "Cats are animals."
    /\ Len(result.direct_sparql_results) >= 2
    /\ result.processing_method = <<"sparql_chain", "direct_sparql">>
    /\ result.success

\* C2: whatever each source does (returns, returns nothing, raises), a call
\* with a query string returns success = true, and the result holds the
\* hits of a search that returned, the dictionary of a chain call that
\* returned one and the rows of every structured query that returned rows.
C2_SourceFailuresContained ==
    (pc = "done" /\ args.is_str) =>
        /\ result.success
        /\ VectorKept
        /\ ChainKept
        /\ DirectKept

C2_Witness ==
    /\ pc = "done"
    /\ \E i \in DOMAIN SearchCalls :
          SearchCalls[i].outcome = "ok" /\ SearchCalls[i].returned # <<>>
    /\ ChainRaised
    /\ \E i \in DOMAIN DirectCalls : DirectCalls[i].outcome = "raise"
    /\ \E i \in DOMAIN DirectCalls : DirectCalls[i].outcome = "rows"
    /\ \E i \in DOMAIN calls :
          calls[i].op = "find_related_entities" /\ calls[i].outcome = "raise"
    /\ result.success
    /\ result.vector_search_results # <<>>
    /\ result.direct_sparql_results # <<>>

FailureKeys == {"original_query", "error", "success"}

\* C3: the failure dictionary is returned only when no source was invoked;
\* once a source has been invoked the call ends with success = true,
\* whatever the availability test of the chain, the enrichment and the
\* context assembly do afterwards.
C3_FailureOnlyBeforeSources ==
    /\ result.keys = FailureKeys => calls = <<>>
    /\ (pc = "done" /\ calls # <<>>) => result.success
    /\ pc = "done" => (result.success <=> result.keys # FailureKeys)

C3_Witness ==
    /\ pc = "done"
    /\ VectorRaised
    /\ \E i \in DOMAIN SchemaCalls : SchemaCalls[i].outcome = "raise"
    /\ result.context = <<"Error generating context: schema summary failed">>
    /\ result.success

\* the first position from i on that holds one of chars, 0 if there is none
FirstOf(text, i, chars) ==
    IF \E j \in i..Len(text) : Ch(text, j) \in chars
    THEN CHOOSE j \in i..Len(text) :
            /\ Ch(text, j) \in chars
            /\ \A k \in i..(j - 1) : Ch(text, k) \notin chars
    ELSE 0

\* the string literals of a query text, read left to right: a quote opens
\* a literal, the same quote closes it, a backslash inside keeps the next
\* character in the literal
RECURSIVE ScanLiterals(_, _, _, _, _)
ScanLiterals(text, i, quote, start, found) ==
    LET j == FirstOf(text, i, IF quote = "" THEN {"\"", "'"} ELSE {quote, "\\"})
    IN  IF j = 0
        THEN [closed |-> quote = "", literals |-> found]
        ELSE IF quote = ""
             THEN ScanLiterals(text, j + 1, Ch(text, j), j + 1, found)
             ELSE IF Ch(text, j) = "\\"
                  THEN ScanLiterals(text, j + 2, quote, start, found)
                  ELSE ScanLiterals(text, j + 1, "", 0,
                                    found \cup {SubSeq(text, start, j - 1)})

\* the literals the templates themselves write (lines 749, 750)
TemplateLiterals == {"ObjectProperty", "DatatypeProperty"}

\* C4: every structured query text sent to the graph engine has only
\* closed string literals, and each literal is a literal of the template or
\* the escaped form of one of the extracted concepts (quote, backslash, newline, tab and carriage
\* return of the concept never reach the text unescaped).
C4_LiteralsEscaped ==
    \A i \in DOMAIN DirectCalls :
        LET lex == ScanLiterals(DirectCalls[i].arg, 1, "", 0, {})
        IN  /\ lex.closed
            /\ lex.literals \subseteq
                  TemplateLiterals
                  \cup {_escape_sparql_string(c) : c \in Range(result.key_concepts)}

-----------------------------------------------------------------------------
(* Claims about the structured queries of process_query *)

PrimaryIntent == result.query_classification.primary_intent

\* C11: when the primary intent is definition, property, comparison,
\* existence or general, process_query executes no synthesized query: no
\* query_sparql call is made for one, direct_sparql_results is empty and
\* 'direct_sparql' is not in processing_method.
C11_NoStructuredQueries ==
    (pc \in {"enhance", "context", "done"} /\ result.success
     /\ PrimaryIntent \in {"definition", "property", "comparison", "existence", "general"}) =>
        /\ DirectCalls = <<>>
        /\ result.direct_sparql_results = <<>>
        /\ ~Listed("direct_sparql")

C11_Witness ==
    /\ pc = "done"
    /\ result.success
    /\ PrimaryIntent = "comparison"
    /\ Listed("vector_search") /\ Listed("sparql_chain")
    /\ \E i \in DOMAIN calls : calls[i].op = "query_sparql" /\ calls[i].purpose = "instances"
    /\ DirectCalls = <<>>

ListAllAnimals == synPc = "out" /\ qText = "list all animals"

\* C12 as claimed: for "list all animals" the primary intent is listing,
\* the concepts include animals, and the synthesizer yields exactly 2 specs
\* (list-classes, list-properties), both with the literal "animals".
C12_ExactlyTwoSpecs ==
    ListAllAnimals =>
        /\ qClass.primary_intent = "listing"
        /\ "animals" \in Range(qConcepts)
        /\ Len(synQueries) = 2
        /\ synQueries[1].type = "list_classes"
        /\ synQueries[2].type = "list_properties"
        /\ \A i \in 1..2 :
              Contains(synQueries[i].query,
                       "LCASE(\"" \o _escape_sparql_string("animals") \o "\")")

\* C12 amended: for "list all animals" the primary intent is listing, the
\* concepts are all and animals (in either order), and the synthesizer
\* yields exactly 4 specs: list-classes then list-properties for each of
\* the two concepts, each with its concept as the literal.
C12_TwoSpecsPerConcept ==
    ListAllAnimals =>
        /\ qClass.primary_intent = "listing"
        /\ Range(qConcepts) = {"all", "animals"}
        /\ Len(qConcepts) = 2
        /\ Len(synQueries) = 4
        /\ \A k \in 1..2 :
              LET literal == "LCASE(\"" \o _escape_sparql_string(qConcepts[k]) \o "\")"
              IN  /\ synQueries[2 * k - 1].type = "list_classes"
                  /\ synQueries[2 * k].type = "list_properties"
                  /\ Contains(synQueries[2 * k - 1].query, literal)
                  /\ Contains(synQueries[2 * k].query, literal)

C12_Witness ==
    /\ ListAllAnimals
    /\ qConcepts = <<"all", "animals">>
    /\ Len(synQueries) = 4
    /\ synQueries[3].type = "list_classes"

-----------------------------------------------------------------------------
(* Claims about the assembled context *)

\* the positions of a line in the returned context
LinesEqual(line) == {i \in DOMAIN result.context : result.context[i] = line}

HasSection(header) == LinesEqual(header) # {}

\* the position of a section header, 0 when the section is absent
SectionAt(header) ==
    IF HasSection(header)
    THEN CHOOSE i \in LinesEqual(header) : \A j \in LinesEqual(header) : i <= j
    ELSE 0

StartsWith(s, prefix) == Len(s) >= Len(prefix) /\ SubSeq(s, 1, Len(prefix)) = prefix

\* process_query returned a context that was assembled (not the error text)
Assembled ==
    /\ pc = "done"
    /\ result.success
    /\ result.context # <<>>
    /\ ~StartsWith(result.context[1], "Error generating context: ")

OrderedSections ==
    <<ChainSectionHeader, EntitySectionHeader, DirectSectionHeader, InstructionsHeader>>

\* C13: in every assembled context the query metadata comes first, then,
\* each at most once and in this order, the chain section, the
\* semantic-search section, the structured-results section and the closing
\* instructions; the chain answer's line precedes the semantic-search
\* section when both are there; the chain section is there only if the
\* chain result exists and is not tagged with an error.
C13_SectionOrder ==
    Assembled =>
        /\ StartsWith(result.context[1], "User Query: ")
        /\ StartsWith(result.context[2], "Query Intent: ")
        /\ \A k \in DOMAIN OrderedSections :
              /\ Cardinality(LinesEqual(OrderedSections[k])) <= 1
              /\ HasSection(OrderedSections[k]) => SectionAt(OrderedSections[k]) > 3
        /\ \A k, l \in DOMAIN OrderedSections :
              (k < l /\ HasSection(OrderedSections[k]) /\ HasSection(OrderedSections[l])) =>
                  SectionAt(OrderedSections[k]) < SectionAt(OrderedSections[l])
        /\ HasSection(InstructionsHeader)
        /\ SectionAt(InstructionsHeader) = Len(result.context) - 7
        /\ \A i \in DOMAIN result.context :
              (StartsWith(result.context[i], "Generated Answer: ")
               /\ HasSection(EntitySectionHeader)) =>
                  /\ SectionAt(ChainSectionHeader) < i
                  /\ i < SectionAt(EntitySectionHeader)
        /\ HasSection(ChainSectionHeader) =>
              /\ ~result.sparql_chain_result.is_none
              /\ "error" \notin result.sparql_chain_result.keys

\* C14: an assembled context that has neither the chain section nor the
\* semantic-search section has the schema overview section; so the context
\* of a successful process_query has at least one of the three.
C14_FallbackWhenNothingElse ==
    Assembled =>
        \/ HasSection(ChainSectionHeader)
        \/ HasSection(EntitySectionHeader)
        \/ HasSection(SchemaSectionHeader)

\* C15: a context with the schema overview section has none of the chain
\* section, the semantic-search section and the structured-results section.
C15_FallbackReplacesSections ==
    (pc = "done" /\ HasSection(SchemaSectionHeader)) =>
        /\ ~HasSection(ChainSectionHeader)
        /\ ~HasSection(EntitySectionHeader)
        /\ ~HasSection(DirectSectionHeader)

-----------------------------------------------------------------------------
(* Claims about enrichment *)

\* the follow-up lookup of this kind for this hit was made and raised
LookupFailed(purpose, uri) ==
    \E i \in DOMAIN calls :
        calls[i].purpose = purpose /\ calls[i].arg = uri /\ calls[i].outcome = "raise"

\* the follow-up lookups a hit of this type calls for, with the field each
\* fills and what it fills it with when it succeeds
LookupsFor(entity) ==
    {[purpose |-> "related", field |-> "related_entities",
      data |-> Take(RelatedOf(entity.uri), 8)]}
    \cup (IF entity.type = "Class"
          THEN {[purpose |-> "instances", field |-> "instances",
                 data |-> Take(UriLabel(InstancesOf(entity.uri)), 5)],
                [purpose |-> "siblings", field |-> "sibling_classes",
                 data |-> Take(UriLabel(SiblingsOf(entity.uri)), 5)]}
          ELSE {})
    \cup (IF entity.type \in {"ObjectProperty", "DatatypeProperty"}
          THEN {[purpose |-> "usage", field |-> "usage_examples",
                 data |-> Take(UsageOf(entity.uri), 3)]}
          ELSE {})

FieldOf(entity, field) ==
    CASE field = "related_entities" -> entity.related_entities
      [] field = "instances" -> entity.instances
      [] field = "sibling_classes" -> entity.sibling_classes
      [] field = "usage_examples" -> entity.usage_examples

\* the enriched hit still has the base hit's fields
BaseKept(entity, enhanced) ==
    /\ BaseKeys \subseteq enhanced.keys
    /\ enhanced.uri = entity.uri /\ enhanced.local_name = entity.local_name
    /\ enhanced.type = entity.type /\ enhanced.labels = entity.labels
    /\ enhanced.comments = entity.comments
    /\ enhanced.similarity_score = entity.similarity_score

\* C16: for every enriched hit the base fields are kept; a follow-up lookup
\* that failed leaves its field out (or empty), and every other follow-up
\* lookup of the hit has its field present with what the lookup gives.
C16_FailSoftPerLookup ==
    \A i \in DOMAIN enhanced_results :
        LET entity == result.vector_search_results[i]
            enhanced == enhanced_results[i]
        IN  /\ BaseKept(entity, enhanced)
            /\ \A l \in LookupsFor(entity) :
                  IF LookupFailed(l.purpose, entity.uri)
                  THEN l.field \notin enhanced.keys \/ FieldOf(enhanced, l.field) = <<>>
                  ELSE l.field \in enhanced.keys /\ FieldOf(enhanced, l.field) = l.data

\* C17: for each of the first 5 hits whose enrichment gave related entities
\* or instances, the assembled context has the hit's line with up to 3
\* related names, respectively up to 3 instance names.
C17_ContextShowsEnrichment ==
    Assembled =>
        \A i \in DOMAIN enhanced_results :
            LET enhanced == enhanced_results[i]
            IN  /\ ("related_entities" \in enhanced.keys /\ enhanced.related_entities # <<>>) =>
                      HasSection("   Related to: "
                                 \o Join(Take(LocalNames(enhanced.related_entities), 3), ", "))
                /\ ("instances" \in enhanced.keys /\ enhanced.instances # <<>>) =>
                      HasSection("   Examples: "
                                 \o Join(Take(Labels(enhanced.instances), 3), ", "))

\* the follow-up lookups made, in the order made
LookupCalls ==
    SelectSeq(calls, LAMBDA c : c.purpose \in {"related", "instances", "siblings", "usage"})

\* C18: only the first 5 hits are enriched, in rank order, and no follow-up
\* lookup is made for another hit; an enriched hit has at most 8 related
\* entities, instances (at most 5) and sibling classes (at most 5) only if
\* it is a class, usage examples (at most 3) only if it is an object or
\* datatype property.
C18_EnrichmentBounded ==
    /\ Len(enhanced_results) <= 5
    /\ Len(enhanced_results) <= Len(result.vector_search_results)
    /\ pc \in {"context", "done"} =>
          Len(enhanced_results) = Min(5, Len(result.vector_search_results))
    /\ \A i \in DOMAIN enhanced_results :
          LET enhanced == enhanced_results[i]
          IN  /\ enhanced.uri = result.vector_search_results[i].uri
              /\ Len(enhanced.related_entities) <= 8
              /\ Len(enhanced.instances) <= 5
              /\ Len(enhanced.sibling_classes) <= 5
              /\ Len(enhanced.usage_examples) <= 3
              /\ ({"instances", "sibling_classes"} \cap enhanced.keys # {}) =>
                    enhanced.type = "Class"
              /\ "usage_examples" \in enhanced.keys =>
                    enhanced.type \in {"ObjectProperty", "DatatypeProperty"}
    /\ \A j \in DOMAIN LookupCalls :
          \E i \in 1..Min(5, Len(result.vector_search_results)) :
              LookupCalls[j].arg = result.vector_search_results[i].uri
    /\ LET related == SelectSeq(LookupCalls, LAMBDA c : c.purpose = "related")
       IN  \A j \in DOMAIN related : related[j].arg = result.vector_search_results[j].uri
    /\ pc = "done" /\ result.vector_search_results # <<>> =>
          result.enhanced_entities = enhanced_results

C18_Witness ==
    /\ pc = "done"
    /\ Len(result.vector_search_results) = 6
    /\ Len(result.enhanced_entities) = 5
    /\ Len(LookupCalls) = 5
    /\ LookupCalls[5].arg = "ex:Tom5"
    /\ "related_entities" \in result.enhanced_entities[5].keys

-----------------------------------------------------------------------------
(* Claims about the chain call and the list of methods *)

\* C19: query_with_langchain is called (once) iff use_sparql_chain is true
\* and the chain is available; without the call sparql_chain_result stays
\* None; when the call raises, sparql_chain_result is a dictionary with an
\* 'error' entry and the call of process_query still succeeds.
C19_ChainInvocation ==
    (pc \in {"direct", "enhance", "context", "done"} /\ args.is_str) =>
        /\ (ChainCalls # <<>>) <=> (args.use_sparql_chain /\ sparql_chain)
        /\ Len(ChainCalls) <= 1
        /\ ChainCalls = <<>> => result.sparql_chain_result.is_none
        /\ ChainRaised =>
              /\ result.success
              /\ "sparql_chain_result" \in result.keys
              /\ ~result.sparql_chain_result.is_none
              /\ "error" \in result.sparql_chain_result.keys

C19_Witness ==
    /\ pc = "done"
    /\ ChainRaised
    /\ result.success
    /\ result.sparql_chain_result = ChainErrorDict("chain raised")

\* C20: after a successful process_query a method is listed exactly when
\* its source was invoked and succeeded: 'vector_search' when the search
\* returned, 'sparql_chain' when the chain returned a result without an
\* error, 'direct_sparql' when a synthesized query was executed without
\* raising.
C20_MethodsTrackSuccess ==
    (pc = "done" /\ result.success) =>
        /\ Listed("vector_search") <=>
              \E i \in DOMAIN SearchCalls : SearchCalls[i].outcome = "ok"
        /\ Listed("sparql_chain") <=>
              \E i \in DOMAIN ChainCalls : ChainCalls[i].outcome = "answer"
        /\ Listed("direct_sparql") <=>
              \E i \in DOMAIN DirectCalls : DirectCalls[i].outcome # "raise"

-----------------------------------------------------------------------------
(* Claims about the scheduling of the sources *)

ChainEnabled == args.use_sparql_chain /\ sparql_chain
SearchEnabled == args.include_vector_search /\ vector_store

\* the specs the synthesizer yields for the call in progress
SynthesizedSpecs ==
    IF StructuredIntent
    THEN _generate_targeted_sparql_queries(result.cleaned_query, result.query_classification,
                                           result.key_concepts)
    ELSE <<>>

\* the step of process_query a call belongs to
StepOf(call) ==
    CASE call.purpose = "vector" -> 1
      [] call.purpose = "chain" -> 2
      [] call.purpose = "direct" -> 3
      [] call.purpose \in {"related", "instances", "siblings", "usage"} -> 4
      [] call.purpose = "schema" -> 5

\* C21 as claimed: the sources are parallel tasks, so while the semantic
\* search has not returned yet the chain call (when enabled and available)
\* can be started.
C21_SourcesConcurrent ==
    (pc = "vector" /\ SearchEnabled /\ ChainEnabled) =>
        ENABLED (ChainQAReturns \/ ChainQARaises)

\* C21 amended: the sources are invoked one after the other (semantic
\* search, chain, structured queries), each only when the one before has
\* returned, raised or been skipped; a source that raised does not cancel
\* the later ones: they are still invoked when their own conditions hold.
C21_SourcesSequential ==
    /\ \A i, j \in DOMAIN calls : i < j => StepOf(calls[i]) <= StepOf(calls[j])
    /\ (pc = "vector" /\ args.is_str) => calls = <<>>
    /\ pc = "chain" => ChainCalls = <<>> /\ DirectCalls = <<>>
    /\ pc = "direct" => DirectCalls = <<>>
    /\ (pc \in {"direct", "enhance", "context", "done"} /\ args.is_str) =>
          /\ SearchEnabled => SearchCalls # <<>>
          /\ ChainEnabled => ChainCalls # <<>>
    /\ (pc \in {"enhance", "context", "done"} /\ args.is_str) =>
          Len(DirectCalls) = Len(SynthesizedSpecs)

C21_Witness ==
    /\ pc = "done"
    /\ VectorRaised
    /\ ChainRaised
    /\ Len(DirectCalls) = 2
    /\ DirectCalls[1].outcome = "raise"
    /\ DirectCalls[2].outcome = "rows"
    /\ result.success

\* C22: in one call of process_query the semantic search is invoked at
\* most once, the chain at most once, and each synthesized query is
\* executed exactly once, in synthesis order, whether it raises or not.
C22_NoRetry ==
    /\ Len(SearchCalls) <= 1
    /\ Len(ChainCalls) <= 1
    /\ (pc \in {"enhance", "context", "done"} /\ args.is_str) =>
          /\ Len(DirectCalls) = Len(SynthesizedSpecs)
          /\ \A i \in DOMAIN DirectCalls : DirectCalls[i].arg = SynthesizedSpecs[i].query
    /\ pc \in {"start", "vector", "chain", "direct"} => DirectCalls = <<>>

C22_Witness ==
    /\ pc = "done"
    /\ VectorRaised /\ Len(SearchCalls) = 1
    /\ ChainRaised /\ Len(ChainCalls) = 1
    /\ Len(DirectCalls) = 2
    /\ \A i \in DOMAIN DirectCalls : DirectCalls[i].outcome = "raise"

-----------------------------------------------------------------------------
(* Claims about the order and the distinctness of the concepts *)

Extracted == qPc = "extracted"

\* the position of the concept's first occurrence in the query
FirstOccurrence(concept) == StrFind(Lower(qText), Lower(concept))

\* C23: the concepts are in descending order of score, and concepts of
\* equal score are in the order of their first occurrence in the query.
C23_OrderedByScoreThenPosition ==
    Extracted =>
        \A i, j \in DOMAIN qConcepts :
            i < j =>
                /\ ConceptScore(qText, qConcepts[i]) >= ConceptScore(qText, qConcepts[j])
                /\ ConceptScore(qText, qConcepts[i]) = ConceptScore(qText, qConcepts[j]) =>
                      FirstOccurrence(qConcepts[i]) <= FirstOccurrence(qConcepts[j])

\* C24: no two entries of the concept list are equal ignoring case.
C24_DistinctIgnoringCase ==
    Extracted =>
        \A i, j \in DOMAIN qConcepts :
            i # j => Lower(qConcepts[i]) # Lower(qConcepts[j])

-----------------------------------------------------------------------------
(* Claims about the state process_query shares between calls *)

\* the hits search_similar returned to a call are in its result as returned
HitsAsReturned(q) ==
    \A i \in DOMAIN q.calls :
        (q.calls[i].op = "search_similar" /\ q.calls[i].outcome = "ok"
         /\ "vector_search_results" \in q.result.keys) =>
            q.result.vector_search_results = q.calls[i].returned

IsPrefix(s, t) == Len(s) <= Len(t) /\ s = SubSeq(t, 1, Len(s))

\* C25: no step of a call changes the pattern table, the keyword table or a
\* collaborator handle of the processor, or the arguments of a call, and the
\* hits search_similar returned to a call stay in its result as returned
\* while they are enriched and rendered; and a call whose steps were
\* interleaved in any order with those of another call asked its
\* collaborators what it asks when it is made alone and, given the same
\* answers, returned the same result.
C25_NoSharedMutation ==
    /\ [][/\ vector_store' = vector_store
          /\ sparql_chain' = sparql_chain
          /\ query_patterns' = query_patterns
          /\ intent_keywords' = intent_keywords
          /\ Request("A")'.args = Request("A").args
          /\ phase' = "together" => Request("B")'.args = Request("B").args]_vars
    /\ [](/\ HitsAsReturned(Request("A"))
          /\ phase = "together" => HitsAsReturned(Request("B"))
          /\ phase = "alone" =>
                /\ IsPrefix(calls, interleaved.calls)
                /\ pc = "done" =>
                      /\ calls = interleaved.calls
                      /\ result = interleaved.result)

\* call A, a vector search whose hit was enriched, returned while call B was
\* under way; made again alone, it has returned the same
C25_Witness ==
    /\ phase = "alone"
    /\ mixed
    /\ pc = "done"
    /\ result = interleaved.result
    /\ calls = interleaved.calls
    /\ result.vector_search_results = <<HitAnimal>>
    /\ "related_entities" \in result.enhanced_entities[1].keys
    /\ "instances" \in result.enhanced_entities[1].keys
    /\ "related_entities" \notin result.vector_search_results[1].keys
    /\ vector_store /\ sparql_chain /\ TablesBuilt

-----------------------------------------------------------------------------
(* Claims about the join of the sources and the structured batch *)

\* how get_schema_summary ended in this call ("ok" when it was not called)
SchemaOutcome == IF SchemaCalls = <<>> THEN "ok" ELSE SchemaCalls[1].outcome

\* C26: enrichment and context assembly start only when each of the three
\* sources has returned, raised or been skipped: no source is called after
\* the first lookup of enrichment or the schema lookup of the fallback, the
\* result holds what every source returned when enrichment starts, and the
\* context is assembled from those final results.
C26_FanInBarrier ==
    /\ \A i, j \in DOMAIN calls :
          (i < j /\ StepOf(calls[i]) >= 4) => StepOf(calls[j]) >= 4
    /\ (\E i \in DOMAIN calls : StepOf(calls[i]) >= 4) => pc \in {"enhance", "context", "done"}
    /\ (pc \in {"enhance", "context", "done"} /\ args.is_str) =>
          /\ SearchEnabled => SearchCalls # <<>>
          /\ ChainEnabled => ChainCalls # <<>>
          /\ Len(DirectCalls) = Len(SynthesizedSpecs)
          /\ VectorKept /\ ChainKept /\ DirectKept
    /\ (pc = "done" /\ args.is_str) =>
          result.context = _generate_comprehensive_context(
                               [result EXCEPT !.context = <<>>], SchemaOutcome)

C26_Witness ==
    /\ pc = "done"
    /\ SearchCalls # <<>> /\ ~VectorRaised
    /\ ChainCalls # <<>> /\ ~ChainRaised
    /\ \E i \in DOMAIN DirectCalls : DirectCalls[i].outcome = "rows"
    /\ LookupCalls # <<>>
    /\ HasSection(EntitySectionHeader)

\* C27: every synthesized query is executed, whether an earlier one raised
\* or not; a query that raised or returned no rows has no entry, and the
\* structured results are the entries (type, query text, rows, description)
\* of the queries that returned rows, in synthesis order.
C27_BatchIndependent ==
    (pc \in {"enhance", "context", "done"} /\ args.is_str /\ StructuredIntent) =>
        LET returned == {i \in DOMAIN DirectCalls : DirectCalls[i].outcome = "rows"}
            rank(i) == Cardinality({k \in returned : k <= i})
        IN  /\ Len(DirectCalls) = Len(SynthesizedSpecs)
            /\ \A i \in DOMAIN DirectCalls : DirectCalls[i].arg = SynthesizedSpecs[i].query
            /\ Len(result.direct_sparql_results) = Cardinality(returned)
            /\ \A i \in returned :
                  result.direct_sparql_results[rank(i)] =
                      [query_type |-> SynthesizedSpecs[i].type,
                       sparql_query |-> SynthesizedSpecs[i].query,
                       results |-> DirectCalls[i].returned,
                       description |-> SynthesizedSpecs[i].description]

C27_Witness ==
    /\ pc = "done"
    /\ Len(DirectCalls) = 2
    /\ DirectCalls[1].outcome = "raise"
    /\ DirectCalls[2].outcome = "rows"
    /\ Len(result.direct_sparql_results) = 1
    /\ result.direct_sparql_results[1].sparql_query = DirectCalls[2].arg

-----------------------------------------------------------------------------
(* Claims about intents of equal score *)

\* the enumeration order of the intents as the claim gives it
EnumerationOrder ==
    <<"definition", "relationship", "property", "listing",
      "comparison", "hierarchical", "existence", "count">>

\* the intents that share the highest score
TopTied(classification) ==
    {intent \in IntentSet :
        \A other \in IntentSet :
            classification.all_scores2[intent] >= classification.all_scores2[other]}

\* the n-th member of a set of intents in enumeration order
NthInOrder(intents, n) ==
    CHOOSE x \in intents :
        Cardinality({y \in intents :
            IndexOf(EnumerationOrder, y) < IndexOf(EnumerationOrder, x)}) = n - 1

\* C28: intents of equal score are ordered by the enumeration order
\* (definition, relationship, property, listing, comparison, hierarchical,
\* existence, count): among the intents tied for the highest score, when it
\* is above 0, the primary is the earliest and the secondary the next one.
C28_TiesByEnumerationOrder ==
    Classified =>
        /\ \A i, j \in DOMAIN qClass.sorted_intents :
              i < j =>
                 LET a == qClass.sorted_intents[i]
                     b == qClass.sorted_intents[j]
                 IN  \/ qClass.all_scores2[a] > qClass.all_scores2[b]
                     \/ /\ qClass.all_scores2[a] = qClass.all_scores2[b]
                        /\ IndexOf(EnumerationOrder, a) < IndexOf(EnumerationOrder, b)
        /\ ~AllScoresZero(qClass) =>
              /\ qClass.primary_intent = NthInOrder(TopTied(qClass), 1)
              /\ Cardinality(TopTied(qClass)) >= 2 =>
                    qClass.secondary_intent = NthInOrder(TopTied(qClass), 2)

C28_Witness ==
    /\ qPc = "classified"
    /\ ~AllScoresZero(qClass)
    /\ Cardinality(TopTied(qClass)) >= 3
    /\ qClass.primary_intent = "definition"
    /\ qClass.secondary_intent = "listing"

-----------------------------------------------------------------------------
(* Claims about chat *)

\* chat has returned after calling process_query
ChatReturned == chatPc = "done" /\ pc = "done"

\* the LLM was not set, or its invocation raised
LLMGaveNoAnswer == \A i \in DOMAIN llmCalls : llmCalls[i].outcome = "raise"

\* the chain returned an answer and no error
ChainAnswered ==
    /\ ~result.sparql_chain_result.is_none
    /\ result.sparql_chain_result.error = ""
    /\ result.sparql_chain_result.answer # ""

\* the answer lists the first three hits, in rank order
AnswersFromHits ==
    LET hits == result.vector_search_results
        shown == Min(3, Len(hits))
    IN  /\ chatResult.response[1] =
              "I found " \o Digit(shown) \o " relevant entities in the knowledge graph:"
        /\ \A i \in 1..shown :
              \E k \in DOMAIN chatResult.response :
                  chatResult.response[k] =
                      Digit(i) \o ". " \o hits[i].local_name \o " (" \o hits[i].type \o ")"

\* C29: when process_query reports a failure, chat returns success = false
\* with that error and the LLM is never invoked; when process_query
\* succeeds, chat returns success = true whether the LLM answers, raises or
\* is not set, and without an LLM answer the response is the chain answer
\* when the chain returned one without error, else the list of semantic
\* hits, else the note on the structured results, else the fixed not-found
\* message.
C29_ChatFailureAndFallback ==
    /\ (ChatReturned /\ ~result.success) =>
          /\ ~chatResult.success
          /\ "error" \in chatResult.keys
          /\ chatResult.error = result.error
          /\ llmCalls = <<>>
    /\ (ChatReturned /\ result.success) =>
          /\ chatResult.success
          /\ Len(llmCalls) = IF llm THEN 1 ELSE 0
          /\ LLMGaveNoAnswer =>
                IF ChainAnswered
                THEN chatResult.response = <<result.sparql_chain_result.answer>>
                ELSE IF result.vector_search_results # <<>>
                THEN AnswersFromHits
                ELSE IF result.direct_sparql_results # <<>>
                THEN chatResult.response = FallbackSparqlMessage
                ELSE chatResult.response = FallbackNotFound

-----------------------------------------------------------------------------
(* Claims about the knowledge base *)

KbCalled(entry, op) == \E i \in DOMAIN entry.calls : entry.calls[i].op = op

KbReturned(entry, op, outcome) ==
    \E i \in DOMAIN entry.calls :
        entry.calls[i].op = op /\ entry.calls[i].outcome = outcome

\* the operation cleared the index and then found no entities or did not
\* get them indexed
KbRebuildFailed(entry) ==
    /\ KbReturned(entry, "clear_index", "ok")
    /\ \/ KbReturned(entry, "get_all_entities", "raise")
       \/ KbCalled(entry, "get_all_entities") /\ ~KbCalled(entry, "add_entities")
       \/ KbReturned(entry, "add_entities", "false")
       \/ KbReturned(entry, "add_entities", "raise")

\* what C30 says of every operation but the content a failed rebuild leaves:
\* initialize_knowledge_base without force_rebuild on an index that holds
\* entities clears nothing, indexes nothing and leaves the index as it was,
\* so repeating it changes nothing and returns the same; with force_rebuild
\* (and in refresh_knowledge_base) the index is cleared before the entities
\* are extracted and indexed
KbClearsBeforeIndexing(k) ==
    LET entry == kbLog[k]
    IN  /\ (entry.op = "initialize" /\ ~entry.force_rebuild /\ entry.before # {}) =>
              /\ ~KbCalled(entry, "clear_index")
              /\ ~KbCalled(entry, "add_entities")
              /\ entry.after = entry.before
              /\ KbReturned(entry, "get_index_stats", "ok") =>
                    /\ entry.result.success
                    /\ entry.result.entities_indexed = Cardinality(entry.before)
                    /\ (k > 1 /\ kbLog[k - 1].op = "initialize"
                        /\ ~kbLog[k - 1].force_rebuild /\ kbLog[k - 1].before # {}
                        /\ KbReturned(kbLog[k - 1], "get_index_stats", "ok")) =>
                           entry.result = kbLog[k - 1].result
        /\ \A i, j \in DOMAIN entry.calls :
              (entry.calls[i].op = "clear_index"
               /\ entry.calls[j].op \in {"get_all_entities", "add_entities"}) => i < j
        /\ (entry.force_rebuild /\ KbCalled(entry, "get_all_entities")) =>
              KbReturned(entry, "clear_index", "ok")

\* C30 as claimed: as above, and when the rebuild finds no entities or does
\* not get them indexed the operation returns success = false and the index
\* is left empty
C30_FailedRebuildLeavesEmpty ==
    \A k \in DOMAIN kbLog :
        /\ KbClearsBeforeIndexing(k)
        /\ KbRebuildFailed(kbLog[k]) =>
              /\ ~kbLog[k].result.success
              /\ kbLog[k].after = {}

\* C30, amended: initialize_knowledge_base without force_rebuild on an index
\* that holds entities clears nothing, indexes nothing and leaves the index
\* as it was (repeating it is idempotent); with force_rebuild (and in
\* refresh_knowledge_base) the index is cleared before the entities are
\* extracted and indexed, and a rebuild that then finds no entities or does
\* not get them indexed returns success = false and makes no further call,
\* so the previous content is not restored: the index is empty when
\* add_entities was not reached, and holds nothing but entities of the new
\* extraction (those add_entities had added before it failed) otherwise
C30_RebuildClearsFirst ==
    \A k \in DOMAIN kbLog :
        LET entry == kbLog[k]
            last == entry.calls[Len(entry.calls)]
        IN  /\ KbClearsBeforeIndexing(k)
            /\ KbRebuildFailed(entry) =>
                  /\ ~entry.result.success
                  /\ last.op \in {"get_all_entities", "add_entities"}
                  /\ entry.after \subseteq SetOf(entry.graph)
                  /\ ~KbCalled(entry, "add_entities") => entry.after = {}

\* a refresh after an initialization that changed nothing: add_entities
\* raises after it had added one of the two entities, and the index holds
\* that entity alone, not the previous content
C30_Witness ==
    /\ Len(kbLog) = 2
    /\ kbLog[1].op = "initialize" /\ ~kbLog[1].force_rebuild
    /\ kbLog[1].before = {"ex:Cat", "ex:Old"}
    /\ kbLog[1].result.success /\ kbLog[1].after = kbLog[1].before
    /\ kbLog[2].op = "refresh"
    /\ KbRebuildFailed(kbLog[2])
    /\ KbReturned(kbLog[2], "add_entities", "raise")
    /\ kbLog[2].before = {"ex:Cat", "ex:Old"}
    /\ kbLog[2].graph = <<"ex:Cat", "ex:Dog">>
    /\ kbIndex = {"ex:Dog"}
    /\ ~kbLog[2].result.success

=============================================================================
